---- MODULE Spec2Model ----
(***************************************************************************)
(* Data retrieval and analytical aggregation layer of the agricultural     *)
(* question-answering tool (src/tools.py, src/config.py).                  *)
(*                                                                         *)
(* Conventions of the model                                                *)
(*   - a Python dict is a TLA+ function whose DOMAIN is its key set;       *)
(*     Get(d, k, default) is dict.get.                                     *)
(*   - a raw field of an upstream record is a tagged value: NoneV,         *)
(*     Num(milli) (a number, held in thousandths) or Str(chars) (a string, *)
(*     held as a tuple of one-character strings so that parsing, case      *)
(*     folding and substring tests are computed, not assumed).             *)
(*   - a message built with an f-string is the tuple of its parts.         *)
(*   - a function body is an operator that returns an outcome              *)
(*     [ctl |-> "return", val |-> v] or [ctl |-> "raise", exc |-> e].      *)
(***************************************************************************)
EXTENDS Integers, Sequences, FiniteSets, TLC

VARIABLES
    api_pc,      \* make_api_call: "idle", "loop", "returned", "raised"
    api_args,    \* make_api_call: [resource_id, filters] of the running call
    attempt,     \* make_api_call: loop variable of `for attempt in range(MAX_RETRIES)`
    http_log,    \* outcomes of the HTTP requests the running call has issued
    api_out,     \* make_api_call: its outcome (returned mapping or raised exception)
    f_pc,        \* fetcher: "idle", "rain_loop", "returned", "raised"
    f_args,      \* fetcher: the arguments of the running fetch_crop_data / fetch_rainfall_data
    f_acc,       \* fetch_rainfall_data: all_records, urls, errors; gw: the Gateway calls made
    f_out,       \* fetcher: its outcome
    c_pc,        \* compare_rainfall_and_crops: "idle", "rainfall", "crops", "results",
                 \*   "returned", "raised"
    c_args,      \* compare_rainfall_and_crops: state_x, state_y, years, crop_type
    c_i,         \* position of the running loop in [state_x, state_y]
    rainfall_data,  \* compare_rainfall_and_crops: dict state -> rainfall entry
    crop_data,      \* compare_rainfall_and_crops: dict state -> crop entry
    c_gw,        \* the Gateway calls the running routine has made
    c_out,       \* compare_rainfall_and_crops: its outcome
    t_pc,        \* analyze_agricultural_data_func: "idle", "routine", "serialize",
                 \*   "returned", "raised"
    t_args,      \* its arguments: state_x, state_y, years, metric, crop_type, crop_z
    t_call,      \* the analysis routine it has called, None when it called none
    t_gw,        \* the Gateway calls made since it was called
    t_result,    \* the outcome of the routine it called
    t_out,       \* its own outcome
    m_pc,        \* find_max_min_districts: "idle", "state_x", "state_y", "results",
                 \*   "returned", "raised"
    m_args,      \* find_max_min_districts: state_x, state_y, crop_z, years
    crop_result_x,          \* find_max_min_districts: the fetch for state_x
    district_production_x,  \* dict district -> summed production, state_x
    max_district_x,         \* the item of district_production_x chosen by max()
    crop_result_y,          \* find_max_min_districts: the fetch for state_y
    district_production_y,  \* dict district -> summed production, state_y
    min_district_y,         \* the item of district_production_y chosen by min()
    m_gw,        \* the Gateway calls the running find_max_min_districts has made
    m_out,       \* find_max_min_districts: its outcome
    sfc_args,    \* safe_float_convert: value and default of the call, None before it
    sfc_out      \* safe_float_convert: its outcome

api_vars == <<api_pc, api_args, attempt, http_log, api_out>>
fetch_vars == <<f_pc, f_args, f_acc, f_out>>
compare_vars == <<c_pc, c_args, c_i, rainfall_data, crop_data, c_gw, c_out>>

facade_vars == <<t_pc, t_args, t_call, t_gw, t_result, t_out>>

maxmin_vars == <<m_pc, m_args, crop_result_x, district_production_x, max_district_x,
                 crop_result_y, district_production_y, min_district_y, m_gw, m_out>>

sanitizer_vars == <<sfc_args, sfc_out>>

vars == <<api_vars, fetch_vars, compare_vars, facade_vars, maxmin_vars, sanitizer_vars>>

-----------------------------------------------------------------------------
(* Python values *)

None == "<None>"
NoneV == [t |-> "none"]
Num(n) == [t |-> "num", v |-> n]
Str(s) == [t |-> "str", s |-> s]

Get(d, k, default) == IF k \in DOMAIN d THEN d[k] ELSE default

\* a local that is bound once: Body with value for its parameter
With(value, Body(_)) == Body(value)

\* a float that may be nan
NaN == [nan |-> TRUE, v |-> 0]
Float(v) == [nan |-> FALSE, v |-> v]
\* a JSON integer beyond the float range (more than 308 digits)
BigInt == [t |-> "bigint"]

Return(v) == [ctl |-> "return", val |-> v]
Raise(e) == [ctl |-> "raise", exc |-> e]
Continue == [ctl |-> "continue"]
NoOutcome == [ctl |-> "none"]

-----------------------------------------------------------------------------
(* src/config.py *)

MAX_RETRIES == 3
CURRENT_ANALYSIS_YEAR == 2010
DATA_GOV_BASE_URL == "https://api.data.gov.in/resource/"
CROP_RESOURCE_ID == "35be999b-0208-4354-b557-f6ca9a5355de"
RAIN_RESOURCE_ID == "8e0bd482-4aba-4d99-9cb9-ff124f6f1c2f"

\* IMD_SUBDIVISION_MAP (src/config.py:44-75): its keys, and its value per key
IMD_STATES ==
    {"Andhra Pradesh", "Arunachal Pradesh", "Assam", "Bihar",
     "Chhattisgarh", "Delhi", "Goa", "Gujarat",
     "Haryana", "Himachal Pradesh", "Jammu and Kashmir", "Jharkhand",
     "Karnataka", "Kerala", "Madhya Pradesh", "Maharashtra",
     "Manipur", "Meghalaya", "Mizoram", "Nagaland",
     "Odisha", "Punjab", "Rajasthan", "Sikkim",
     "Tamil Nadu", "Telangana", "Tripura", "Uttar Pradesh",
     "Uttarakhand", "West Bengal"}
IMD_SUBDIVISION_MAP(state) ==
    CASE state = "Andhra Pradesh" -> <<"Coastal Andhra Pradesh", "Rayalaseema">>
      [] state = "Arunachal Pradesh" -> <<"Arunachal Pradesh">>
      [] state = "Assam" -> <<"Assam & Meghalaya">>
      [] state = "Bihar" -> <<"Bihar">>
      [] state = "Chhattisgarh" -> <<"Chhattisgarh">>
      [] state = "Delhi" -> <<"Haryana Chandigarh & Delhi">>
      [] state = "Goa" -> <<"Konkan and Goa">>
      [] state = "Gujarat" -> <<"Gujarat Region", "Saurashtra and Kutch">>
      [] state = "Haryana" -> <<"Haryana Chandigarh & Delhi">>
      [] state = "Himachal Pradesh" -> <<"Himachal Pradesh">>
      [] state = "Jammu and Kashmir" -> <<"Jammu & Kashmir">>
      [] state = "Jharkhand" -> <<"Jharkhand">>
      [] state = "Karnataka" -> <<"Coastal Karnataka", "North Interior Karnataka", "South Interior Karnataka">>
      [] state = "Kerala" -> <<"Kerala">>
      [] state = "Madhya Pradesh" -> <<"East Madhya Pradesh", "West Madhya Pradesh">>
      [] state = "Maharashtra" -> <<"Konkan and Goa", "Madhya Maharashtra", "Marathwada", "Vidarbha">>
      [] state = "Manipur" -> <<"Sub Himalayan West Bengal & Sikkim">>
      [] state = "Meghalaya" -> <<"Assam & Meghalaya">>
      [] state = "Mizoram" -> <<"Sub Himalayan West Bengal & Sikkim">>
      [] state = "Nagaland" -> <<"Nagaland Manipur Mizoram & Tripura">>
      [] state = "Odisha" -> <<"Odisha">>
      [] state = "Punjab" -> <<"Punjab">>
      [] state = "Rajasthan" -> <<"East Rajasthan", "West Rajasthan">>
      [] state = "Sikkim" -> <<"Sub Himalayan West Bengal & Sikkim">>
      [] state = "Tamil Nadu" -> <<"Tamil Nadu">>
      [] state = "Telangana" -> <<"Telangana">>
      [] state = "Tripura" -> <<"Nagaland Manipur Mizoram & Tripura">>
      [] state = "Uttar Pradesh" -> <<"East Uttar Pradesh", "West Uttar Pradesh">>
      [] state = "Uttarakhand" -> <<"Uttarakhand">>
      [] state = "West Bengal" -> <<"Gangetic West Bengal", "Sub Himalayan West Bengal & Sikkim">>

\* CROP_TYPES (src/config.py:78-88): its keys, and its value per key; a crop
\* name is a tuple of characters
CROP_TYPE_KEYS == {"Cereals", "Pulses", "Oilseeds", "Cash Crops", "Spices", "Fruits", "Vegetables"}
CROP_TYPES(crop_type) ==
    CASE crop_type = "Cereals" ->
            <<<<"R", "i", "c", "e">>,
              <<"W", "h", "e", "a", "t">>,
              <<"M", "a", "i", "z", "e">>,
              <<"J", "o", "w", "a", "r">>,
              <<"B", "a", "j", "r", "a">>,
              <<"R", "a", "g", "i">>,
              <<"S", "m", "a", "l", "l", " ", "m", "i", "l", "l", "e", "t", "s">>,
              <<"B", "a", "r", "l", "e", "y">>>>
      [] crop_type = "Pulses" ->
            <<<<"G", "r", "a", "m">>,
              <<"T", "u", "r">>,
              <<"U", "r", "a", "d">>,
              <<"M", "o", "o", "n", "g">>,
              <<"M", "a", "s", "o", "o", "r">>,
              <<"L", "e", "n", "t", "i", "l">>,
              <<"O", "t", "h", "e", "r", " ", "K", "h", "a", "r", "i", "f", " ", "p", "u", "l", "s", "e", "s">>,
              <<"O", "t", "h", "e", "r", " ", "R", "a", "b", "i", " ", "p", "u", "l", "s", "e", "s">>,
              <<"P", "e", "a", "s", " ", "&", " ", "b", "e", "a", "n", "s">>,
              <<"A", "r", "h", "a", "r", "/", "T", "u", "r">>,
              <<"M", "o", "t", "h">>,
              <<"H", "o", "r", "s", "e", "-", "g", "r", "a", "m">>>>
      [] crop_type = "Oilseeds" ->
            <<<<"G", "r", "o", "u", "n", "d", "n", "u", "t">>,
              <<"S", "e", "s", "a", "m", "u", "m">>,
              <<"R", "a", "p", "e", "s", "e", "e", "d", " ", "&", " ", "M", "u", "s", "t", "a", "r", "d">>,
              <<"L", "i", "n", "s", "e", "e", "d">>,
              <<"C", "a", "s", "t", "o", "r", " ", "s", "e", "e", "d">>,
              <<"S", "a", "f", "f", "l", "o", "w", "e", "r">>,
              <<"S", "u", "n", "f", "l", "o", "w", "e", "r">>,
              <<"S", "o", "y", "a", "b", "e", "a", "n">>,
              <<"N", "i", "g", "e", "r", " ", "s", "e", "e", "d">>,
              <<"C", "o", "c", "o", "n", "u", "t">>>>
      [] crop_type = "Cash Crops" ->
            <<<<"S", "u", "g", "a", "r", "c", "a", "n", "e">>,
              <<"C", "o", "t", "t", "o", "n">>,
              <<"J", "u", "t", "e">>,
              <<"M", "e", "s", "t", "a">>,
              <<"T", "e", "a">>,
              <<"C", "o", "f", "f", "e", "e">>,
              <<"R", "u", "b", "b", "e", "r">>,
              <<"T", "o", "b", "a", "c", "c", "o">>>>
      [] crop_type = "Spices" ->
            <<<<"B", "l", "a", "c", "k", " ", "p", "e", "p", "p", "e", "r">>,
              <<"D", "r", "y", " ", "c", "h", "i", "l", "l", "i", "e", "s">>,
              <<"T", "u", "r", "m", "e", "r", "i", "c">>,
              <<"G", "i", "n", "g", "e", "r">>,
              <<"C", "o", "r", "i", "a", "n", "d", "e", "r">>,
              <<"G", "a", "r", "l", "i", "c">>>>
      [] crop_type = "Fruits" ->
            <<<<"B", "a", "n", "a", "n", "a">>,
              <<"M", "a", "n", "g", "o">>,
              <<"O", "r", "a", "n", "g", "e">>,
              <<"A", "p", "p", "l", "e">>,
              <<"G", "r", "a", "p", "e", "s">>>>
      [] crop_type = "Vegetables" ->
            <<<<"P", "o", "t", "a", "t", "o">>,
              <<"O", "n", "i", "o", "n">>,
              <<"T", "o", "m", "a", "t", "o">>,
              <<"C", "a", "b", "b", "a", "g", "e">>,
              <<"C", "a", "u", "l", "i", "f", "l", "o", "w", "e", "r">>>>

\* CROP_ATTRIBUTES, src/config.py:91-112, and its key set
CROP_ATTRIBUTE_KEYS ==
    {<<"R", "i", "c", "e">>,
     <<"S", "u", "g", "a", "r", "c", "a", "n", "e">>,
     <<"B", "a", "n", "a", "n", "a">>,
     <<"W", "h", "e", "a", "t">>,
     <<"M", "a", "i", "z", "e">>,
     <<"C", "o", "t", "t", "o", "n">>,
     <<"G", "r", "o", "u", "n", "d", "n", "u", "t">>,
     <<"B", "a", "j", "r", "a">>,
     <<"J", "o", "w", "a", "r">>,
     <<"R", "a", "g", "i">>,
     <<"G", "r", "a", "m">>,
     <<"T", "u", "r">>,
     <<"M", "o", "o", "n", "g">>,
     <<"U", "r", "a", "d">>,
     <<"A", "r", "h", "a", "r", "/", "T", "u", "r">>}
CROP_ATTRIBUTES(crop) ==
    CASE crop = <<"R", "i", "c", "e">> ->
            [Water_Use |-> "High", Type |-> "Cereal", Sensitivity |-> "High"]
      [] crop = <<"S", "u", "g", "a", "r", "c", "a", "n", "e">> ->
            [Water_Use |-> "High", Type |-> "Cash", Sensitivity |-> "High"]
      [] crop = <<"B", "a", "n", "a", "n", "a">> ->
            [Water_Use |-> "High", Type |-> "Fruit", Sensitivity |-> "High"]
      [] crop = <<"W", "h", "e", "a", "t">> ->
            [Water_Use |-> "Moderate", Type |-> "Cereal", Sensitivity |-> "Moderate"]
      [] crop = <<"M", "a", "i", "z", "e">> ->
            [Water_Use |-> "Moderate", Type |-> "Cereal", Sensitivity |-> "Moderate"]
      [] crop = <<"C", "o", "t", "t", "o", "n">> ->
            [Water_Use |-> "Moderate", Type |-> "Cash", Sensitivity |-> "Moderate"]
      [] crop = <<"G", "r", "o", "u", "n", "d", "n", "u", "t">> ->
            [Water_Use |-> "Moderate", Type |-> "Oilseed", Sensitivity |-> "Moderate"]
      [] crop = <<"B", "a", "j", "r", "a">> ->
            [Water_Use |-> "Low", Type |-> "Millet", Sensitivity |-> "Low"]
      [] crop = <<"J", "o", "w", "a", "r">> ->
            [Water_Use |-> "Low", Type |-> "Millet", Sensitivity |-> "Low"]
      [] crop = <<"R", "a", "g", "i">> ->
            [Water_Use |-> "Low", Type |-> "Millet", Sensitivity |-> "Low"]
      [] crop = <<"G", "r", "a", "m">> ->
            [Water_Use |-> "Low", Type |-> "Pulse", Sensitivity |-> "Low"]
      [] crop = <<"T", "u", "r">> ->
            [Water_Use |-> "Low", Type |-> "Pulse", Sensitivity |-> "Low"]
      [] crop = <<"M", "o", "o", "n", "g">> ->
            [Water_Use |-> "Low", Type |-> "Pulse", Sensitivity |-> "Low"]
      [] crop = <<"U", "r", "a", "d">> ->
            [Water_Use |-> "Low", Type |-> "Pulse", Sensitivity |-> "Low"]
      [] crop = <<"A", "r", "h", "a", "r", "/", "T", "u", "r">> ->
            [Water_Use |-> "Low", Type |-> "Pulse", Sensitivity |-> "Low"]

\* get_subdivisions_for_state, src/config.py:127-129
get_subdivisions_for_state(state_name) ==
    IF state_name \in IMD_STATES THEN IMD_SUBDIVISION_MAP(state_name) ELSE <<>>

-----------------------------------------------------------------------------
(* make_api_call, src/tools.py:29-88 *)

\* url = f"{DATA_GOV_BASE_URL}{resource_id}"
RequestUrl(resource_id) == <<DATA_GOV_BASE_URL, resource_id>>
\* response.url: the request URL with the query string requests built from params
ResponseUrl(resource_id, filters) == <<DATA_GOV_BASE_URL, resource_id, filters>>

\* The exceptions of requests.get / raise_for_status that derive from
\* requests.exceptions.RequestException.
RequestExceptionKinds == {"ConnectionError", "Timeout", "HTTPError"}
TransportKinds == {"ConnectionError", "Timeout"}

\* str(e) of the exception an attempt raised
ExcText(o) == <<o.k, o.reason>>

\* Mutant: the last attempt is tested as `attempt == MAX_RETRIES`.
OnRequestException_OffByOne(resource_id, at, text) ==
    IF at = MAX_RETRIES
    THEN [ctl |-> "return",
          val |-> [success |-> FALSE,
                   error |-> <<"API Request Failed: ", text>>,
                   url |-> <<DATA_GOV_BASE_URL, resource_id>>]]
    ELSE [ctl |-> "continue"]

\* except requests.exceptions.RequestException as e: (lines 79-86)
OnRequestException(resource_id, at, text) ==
    IF at = MAX_RETRIES - 1
    THEN Return([success |-> FALSE,
                 error |-> <<"API Request Failed: ", text>>,
                 url |-> RequestUrl(resource_id)])
    ELSE Continue

\* Mutant: an API error body is treated like a failed attempt and retried.
ClassifyBody_RetryOnError(data, resp_url) ==
    IF ~data.isdict
    THEN Raise("AttributeError")
    ELSE IF Get(data.d, "status", None) = "ok"
    THEN Return([success |-> TRUE,
                 data |-> Get(data.d, "records", <<>>),
                 total |-> Get(data.d, "total", 0),
                 url |-> resp_url])
    ELSE IF Get(data.d, "status", None) = "error"
    THEN Continue
    ELSE Return([success |-> FALSE,
                 error |-> <<"No data found for the given filters">>,
                 url |-> resp_url])

\* lines 59-77: classification of the parsed body `data`
ClassifyBody(data, resp_url) ==
    IF ~data.isdict
    THEN Raise("AttributeError")      \* data.get on a list, number, string or null
    ELSE IF Get(data.d, "status", None) = "ok"
    THEN Return([success |-> TRUE,
                 data |-> Get(data.d, "records", <<>>),
                 total |-> Get(data.d, "total", 0),
                 url |-> resp_url])
    ELSE IF Get(data.d, "status", None) = "error"
    THEN Return([success |-> FALSE,
                 error |-> <<"API Error: ", Get(data.d, "message", "Unknown error")>>,
                 url |-> resp_url])
    ELSE Return([success |-> FALSE,
                 error |-> <<"No data found for the given filters">>,
                 url |-> resp_url])

\* Mutant: raise_for_status is handled outside the retry, an HTTP error status
\* ends the call at once.
ApiAttempt_HTTPErrorFatal(resource_id, filters, at, o, json_is_reqexc) ==
    CASE o.k = "HTTPError" ->
            Return([success |-> FALSE,
                    error |-> <<"API Request Failed: ", ExcText(o)>>,
                    url |-> RequestUrl(resource_id)])
      [] o.k \in TransportKinds ->
            OnRequestException(resource_id, at, ExcText(o))
      [] o.k = "NotJSON" ->
            IF json_is_reqexc
            THEN OnRequestException(resource_id, at, ExcText(o))
            ELSE Raise("ValueError")
      [] o.k = "Body" ->
            ClassifyBody(o.body, ResponseUrl(resource_id, filters))

\* One iteration of the retry loop (lines 53-86) on the upstream outcome o.
\* response.json() on a body that is not JSON raises
\* requests.exceptions.JSONDecodeError, a RequestException, from requests 2.27
\* on, and a plain ValueError before: json_is_reqexc says which build runs.
ApiAttempt(resource_id, filters, at, o, json_is_reqexc) ==
    CASE o.k \in RequestExceptionKinds ->
            OnRequestException(resource_id, at, ExcText(o))
      [] o.k = "NotJSON" ->
            IF json_is_reqexc
            THEN OnRequestException(resource_id, at, ExcText(o))
            ELSE Raise("ValueError")
      [] o.k = "Body" ->
            ClassifyBody(o.body, ResponseUrl(resource_id, filters))

\* The whole call on a script of upstream outcomes, one per attempt: the
\* outcome of the call and the number of HTTP requests it issued. Line 88
\* (after the loop) is reached only when range(MAX_RETRIES) is exhausted
\* without a return.
RECURSIVE ApiLoop(_, _, _, _, _)
ApiLoop(resource_id, filters, at, script, json_is_reqexc) ==
    IF at >= MAX_RETRIES
    THEN [out |-> Return([success |-> FALSE, error |-> <<"Max retries exceeded">>]),
          nreq |-> at]
    ELSE With(ApiAttempt(resource_id, filters, at, script[at + 1], json_is_reqexc),
              LAMBDA r :
                 IF r.ctl = "continue"
                 THEN ApiLoop(resource_id, filters, at + 1, script, json_is_reqexc)
                 ELSE [out |-> r, nreq |-> at + 1])

make_api_call(resource_id, filters, script, json_is_reqexc) ==
    ApiLoop(resource_id, filters, 0, script, json_is_reqexc)

-----------------------------------------------------------------------------
(* Python's int() and float() on a raw field *)

Digits == {"0", "1", "2", "3", "4", "5", "6", "7", "8", "9"}
DigitVal(c) ==
    CASE c = "0" -> 0 [] c = "1" -> 1 [] c = "2" -> 2 [] c = "3" -> 3 [] c = "4" -> 4
      [] c = "5" -> 5 [] c = "6" -> 6 [] c = "7" -> 7 [] c = "8" -> 8 [] c = "9" -> 9

RECURSIVE LStrip(_)
LStrip(s) == IF s # <<>> /\ Head(s) = " " THEN LStrip(Tail(s)) ELSE s
RECURSIVE RStrip(_)
RStrip(s) == IF s # <<>> /\ s[Len(s)] = " " THEN RStrip(SubSeq(s, 1, Len(s) - 1)) ELSE s
Strip(s) == RStrip(LStrip(s))

AllDigits(s) == \A i \in 1..Len(s) : s[i] \in Digits
RECURSIVE DigitsValue(_)
DigitsValue(s) ==
    IF s = <<>> THEN 0
    ELSE 10 * DigitsValue(SubSeq(s, 1, Len(s) - 1)) + DigitVal(s[Len(s)])

\* what int() / float() end in: a value, or the exception raised
Parsed(v) == [ok |-> TRUE, v |-> v, exc |-> None]
ParseError == [ok |-> FALSE, v |-> 0, exc |-> "ValueError"]
Overflow == [ok |-> FALSE, v |-> 0, exc |-> "OverflowError"]

Unsigned(t) == IF t # <<>> /\ t[1] \in {"+", "-"} THEN Tail(t) ELSE t
SignOf(t) == IF t # <<>> /\ t[1] = "-" THEN -1 ELSE 1

\* int(s) on a string: optional blanks, optional sign, decimal digits
IntOfStr(s) ==
    LET t == Strip(s)
        body == Unsigned(t)
    IN  IF body # <<>> /\ AllDigits(body)
        THEN Parsed(SignOf(t) * DigitsValue(body))
        ELSE ParseError

\* int(x): a number is truncated towards zero, a string is parsed, None is a
\* TypeError (ParseError stands for the raised ValueError / TypeError)
PyInt(x) ==
    CASE x.t = "num" ->
            Parsed(IF x.v >= 0 THEN x.v \div 1000 ELSE -((-x.v) \div 1000))
      [] x.t = "str" -> IntOfStr(x.s)
      [] x.t = "none" -> ParseError
      [] x.t = "bigint" -> Parsed(2147483647)

\* the fraction digits of a decimal literal, in thousandths
FractionMilli(f) ==
    CASE Len(f) = 0 -> 0
      [] Len(f) = 1 -> 100 * DigitsValue(f)
      [] Len(f) = 2 -> 10 * DigitsValue(f)
      [] OTHER -> DigitsValue(SubSeq(f, 1, 3))

\* the spellings float() reads as nan
NanSpellings == {<<x, y, z>> : x \in {"n", "N"}, y \in {"a", "A"}, z \in {"n", "N"}}

\* float(s) on a string of the grammar blanks sign (digits [. digits] | nan)
\* (the strings of the model carry no exponent, underscore or "inf" spelling
\* and at most three fraction digits); the value is in thousandths, or NaN
FloatOfStr(s) ==
    LET t == Strip(s)
        body == Unsigned(t)
        dots == {i \in 1..Len(body) : body[i] = "."}
    IN  IF body \in NanSpellings THEN Parsed(NaN)
        ELSE IF dots = {}
        THEN IF body # <<>> /\ AllDigits(body)
             THEN Parsed(SignOf(t) * 1000 * DigitsValue(body))
             ELSE ParseError
        ELSE IF Cardinality(dots) > 1 THEN ParseError
        ELSE LET d == CHOOSE i \in dots : TRUE
                 ip == SubSeq(body, 1, d - 1)
                 fp == SubSeq(body, d + 1, Len(body))
             IN  IF AllDigits(ip) /\ AllDigits(fp) /\ Len(ip) + Len(fp) > 0
                 THEN Parsed(SignOf(t) * (1000 * DigitsValue(ip) + FractionMilli(fp)))
                 ELSE ParseError

\* float(x): an integer beyond the float range is an OverflowError
PyFloat(x) ==
    CASE x.t = "num" -> Parsed(x.v)
      [] x.t = "bigint" -> Overflow
      [] x.t = "str" -> FloatOfStr(x.s)
      [] x.t = "none" -> ParseError

\* safe_float_convert, src/tools.py:125-132: the definition bound to the name
\* when the fetchers and the analysis routines run. value is a raw value,
\* default and the returned number are thousandths. The except clause of
\* line 131 catches ValueError and TypeError only. The outcome is a return
\* or a raise; the analysis routines call it on fields the fetchers have
\* already set to a float, where it returns (.val is the number).
safe_float_convert(value, default) ==
    IF \/ value.t = "none"
       \/ (value.t = "str" /\ value.s = <<>>)
       \/ (value.t = "str" /\ value.s = <<"N", "A">>)
       \/ (value.t = "str" /\ value.s = <<"N", "/", "A">>)
    THEN Return(default)
    ELSE With(PyFloat(value),
              LAMBDA f : IF f.ok THEN Return(f.v)
                         ELSE IF f.exc \in {"ValueError", "TypeError"} THEN Return(default)
                         ELSE Raise(f.exc))

-----------------------------------------------------------------------------
(* fetch_crop_data, src/tools.py:91-122 *)

\* Mutant: the window test is written `start_year < year <= end_year`.
InYearWindow_OpenStart(year_field, years) ==
    LET end_year == CURRENT_ANALYSIS_YEAR
        start_year == end_year - years + 1
        year == PyInt(year_field)
    IN  year.ok /\ start_year < year.v /\ year.v <= end_year

\* lines 93-94 / 137-138 and 110-111 / 153-154: year = int(...) inside the
\* try, then start_year <= year <= end_year; a failed int() skips the record
InYearWindow(year_field, years) ==
    LET end_year == CURRENT_ANALYSIS_YEAR
        start_year == end_year - years + 1
        year == PyInt(year_field)
    IN  year.ok /\ start_year <= year.v /\ year.v <= end_year

\* d[k] = v on a dict
SetItem(d, k, v) == [x \in DOMAIN d \cup {k} |-> IF x = k THEN v ELSE d[x]]

\* lines 113-114
CleanCropRecord(r) ==
    LET production == safe_float_convert(Get(r, "production_", NoneV), 0)
        area == safe_float_convert(Get(r, "area_", NoneV), 0)
    IN  IF production.ctl = "raise" THEN production
        ELSE IF area.ctl = "raise" THEN area
        ELSE Return(SetItem(SetItem(r, "production_", Num(production.val)),
                            "area_", Num(area.val)))

\* lines 107-117: the loop over result["data"]
RECURSIVE CropFilterLoop(_, _, _)
CropFilterLoop(data, years, filtered_records) ==
    IF data = <<>> THEN filtered_records
    ELSE LET r == Head(data)
         IN  CropFilterLoop(Tail(data), years,
                 IF /\ InYearWindow(Get(r, "crop_year", Num(0)), years)
                    /\ CleanCropRecord(r).ctl = "return"
                 THEN Append(filtered_records, CleanCropRecord(r).val)
                 ELSE \* line 116: the bare except skips the record
                      filtered_records)

\* lines 96-101
CropFilters(state_name, crop_name) ==
    IF crop_name # None /\ crop_name # ""
    THEN [state_name |-> state_name, crop |-> crop_name]
    ELSE [state_name |-> state_name]

\* One Gateway call as the fetchers and the routines log it
GatewayCall(resource_id, filters, script, call) ==
    [resource_id |-> resource_id, filters |-> filters, script |-> script,
     out |-> call.out, nreq |-> call.nreq]

\* The whole function: its outcome and the Gateway calls it made. script is
\* what the upstream answers to the requests of its one Gateway call.
fetch_crop_data(state_name, years, crop_name, script, json_is_reqexc) ==
    With(make_api_call(CROP_RESOURCE_ID, CropFilters(state_name, crop_name), script,
                       json_is_reqexc),
         LAMBDA call :
            LET gw == <<GatewayCall(CROP_RESOURCE_ID, CropFilters(state_name, crop_name),
                                    script, call)>>
                result == call.out.val
            IN  IF call.out.ctl = "raise" THEN [out |-> call.out, gw |-> gw]
                ELSE IF result.success
                THEN With(CropFilterLoop(result.data, years, <<>>),
                          LAMBDA filtered_records :
                             [out |-> Return([result EXCEPT
                                                 !.data = filtered_records,
                                                 !.total = Len(filtered_records)]),
                              gw |-> gw])
                ELSE [out |-> Return(result), gw |-> gw])

-----------------------------------------------------------------------------
(* fetch_rainfall_data, src/tools.py:135-178 *)

\* sep.join(items), as the tuple of its parts; "" is the empty tuple
RECURSIVE Join(_, _)
Join(items, sep) ==
    IF Len(items) = 0 THEN <<>>
    ELSE IF Len(items) = 1 THEN <<items[1]>>
    ELSE <<items[1], sep>> \o Join(Tail(items), sep)

\* line 157
CleanRainRecord(r) ==
    LET annual == safe_float_convert(Get(r, "annual", NoneV), 0)
    IN  IF annual.ctl = "raise" THEN annual
        ELSE Return(SetItem(r, "annual", Num(annual.val)))

\* lines 151-160: the loop over result["data"]
RECURSIVE RainFilterLoop(_, _, _)
RainFilterLoop(data, years, all_recs) ==
    IF data = <<>> THEN all_recs
    ELSE LET r == Head(data)
         IN  RainFilterLoop(Tail(data), years,
                 IF /\ InYearWindow(Get(r, "year", Num(0)), years)
                    /\ CleanRainRecord(r).ctl = "return"
                 THEN Append(all_recs, CleanRainRecord(r).val)
                 ELSE \* line 159: the bare except skips the record
                      all_recs)

\* Mutant: the URL of a call is kept only when the call contributed a record.
RainIteration_UrlOnlyWithRecords(acc, subdivision, years, script, json_is_reqexc) ==
    With(make_api_call(RAIN_RESOURCE_ID, [subdivision |-> subdivision], script,
                       json_is_reqexc),
         LAMBDA call :
            LET gw == Append(acc.gw, GatewayCall(RAIN_RESOURCE_ID,
                                                 [subdivision |-> subdivision], script, call))
                result == call.out.val
            IN  IF call.out.ctl = "raise"
                THEN [ctl |-> "raise", exc |-> call.out.exc, acc |-> [acc EXCEPT !.gw = gw]]
                ELSE IF result.success
                THEN With(RainFilterLoop(result.data, years, acc.all_records),
                          LAMBDA recs :
                             [ctl |-> "continue",
                              acc |-> [acc EXCEPT
                                         !.urls = IF recs # acc.all_records
                                                  THEN Append(@, result.url) ELSE @,
                                         !.all_records = recs,
                                         !.gw = gw]])
                ELSE [ctl |-> "continue",
                      acc |-> [acc EXCEPT
                                 !.errors = Append(@,
                                     <<subdivision, ": ",
                                       Get(result, "error", <<"Unknown error">>)>>),
                                 !.gw = gw]])

\* lines 144-162: one iteration of `for subdivision in subdivisions` on the
\* locals acc = [all_records, urls, errors] (and gw, the Gateway calls so far)
RainIteration(acc, subdivision, years, script, json_is_reqexc) ==
    With(make_api_call(RAIN_RESOURCE_ID, [subdivision |-> subdivision], script,
                       json_is_reqexc),
         LAMBDA call :
            LET gw == Append(acc.gw, GatewayCall(RAIN_RESOURCE_ID,
                                                 [subdivision |-> subdivision], script, call))
                result == call.out.val
            IN  IF call.out.ctl = "raise"
                THEN [ctl |-> "raise", exc |-> call.out.exc, acc |-> [acc EXCEPT !.gw = gw]]
                ELSE IF result.success
                THEN [ctl |-> "continue",
                      acc |-> [acc EXCEPT
                                 !.urls = Append(@, result.url),
                                 !.all_records = RainFilterLoop(result.data, years, @),
                                 !.gw = gw]]
                ELSE [ctl |-> "continue",
                      acc |-> [acc EXCEPT
                                 !.errors = Append(@,
                                     <<subdivision, ": ",
                                       Get(result, "error", <<"Unknown error">>)>>),
                                 !.gw = gw]])

\* Mutant: the failure is returned whenever a subdivision call failed.
RainReturn_FailOnAnyError(acc) ==
    IF acc.errors # <<>>
    THEN [success |-> FALSE,
          error |-> <<"Failed to fetch data: ", Join(acc.errors, "; ")>>,
          data |-> <<>>,
          total |-> 0,
          url |-> <<>>]
    ELSE [success |-> Len(acc.all_records) > 0,
          data |-> acc.all_records,
          total |-> Len(acc.all_records),
          url |-> IF acc.urls # <<>> THEN Join(acc.urls, " | ") ELSE <<>>]

\* lines 164-178: the result mapping built from the locals
RainReturn(acc) ==
    IF acc.all_records = <<>> /\ acc.errors # <<>>
    THEN [success |-> FALSE,
          error |-> <<"Failed to fetch data: ", Join(acc.errors, "; ")>>,
          data |-> <<>>,
          total |-> 0,
          url |-> <<>>]
    ELSE [success |-> Len(acc.all_records) > 0,
          data |-> acc.all_records,
          total |-> Len(acc.all_records),
          url |-> IF acc.urls # <<>> THEN Join(acc.urls, " | ") ELSE <<>>]

\* lines 140-142
RainLocals == [all_records |-> <<>>, urls |-> <<>>, errors |-> <<>>, gw |-> <<>>]

\* The whole function on scripts, one script per subdivision.
RECURSIVE RainLoop(_, _, _, _, _, _)
RainLoop(acc, subdivisions, i, years, scripts, json_is_reqexc) ==
    IF i > Len(subdivisions)
    THEN [out |-> Return(RainReturn(acc)), gw |-> acc.gw]
    ELSE With(RainIteration(acc, subdivisions[i], years, scripts[i], json_is_reqexc),
              LAMBDA it :
                 IF it.ctl = "raise"
                 THEN [out |-> Raise(it.exc), gw |-> it.acc.gw]
                 ELSE RainLoop(it.acc, subdivisions, i + 1, years, scripts, json_is_reqexc))

fetch_rainfall_data(subdivisions, years, scripts, json_is_reqexc) ==
    RainLoop(RainLocals, subdivisions, 1, years, scripts, json_is_reqexc)

-----------------------------------------------------------------------------
(* Strings, rounding and sorting as the analysis routines use them *)

LowerChar(c) ==
    CASE c = "A" -> "a" [] c = "B" -> "b" [] c = "C" -> "c" [] c = "D" -> "d"
      [] c = "E" -> "e" [] c = "F" -> "f" [] c = "G" -> "g" [] c = "H" -> "h"
      [] c = "I" -> "i" [] c = "J" -> "j" [] c = "K" -> "k" [] c = "L" -> "l"
      [] c = "M" -> "m" [] c = "N" -> "n" [] c = "O" -> "o" [] c = "P" -> "p"
      [] c = "Q" -> "q" [] c = "R" -> "r" [] c = "S" -> "s" [] c = "T" -> "t"
      [] c = "U" -> "u" [] c = "V" -> "v" [] c = "W" -> "w" [] c = "X" -> "x"
      [] c = "Y" -> "y" [] c = "Z" -> "z"
      [] OTHER -> c
\* str.lower()
Lower(s) == [i \in 1..Len(s) |-> LowerChar(s[i])]
\* sub in s
Contains(sub, s) ==
    \E i \in 1..(Len(s) - Len(sub) + 1) : SubSeq(s, i, i + Len(sub) - 1) = sub

\* round(x, 2) of a value in thousandths, as thousandths; a tie goes to the
\* even hundredth (the values of the model produce no tie)
Round2(m) ==
    LET q == m \div 10
        r == m % 10
    IN  IF r < 5 THEN 10 * q
        ELSE IF r > 5 THEN 10 * (q + 1)
        ELSE IF q % 2 = 0 THEN 10 * q ELSE 10 * (q + 1)

RECURSIVE SumSeq(_)
SumSeq(s) == IF s = <<>> THEN 0 ELSE Head(s) + SumSeq(Tail(s))

\* round(np.mean(values), 2) of values in thousandths, as thousandths
RoundMean2(values) ==
    LET d == 10 * Len(values)
        q == SumSeq(values) \div d
        r == SumSeq(values) % d
    IN  IF 2 * r < d THEN 10 * q
        ELSE IF 2 * r > d THEN 10 * (q + 1)
        ELSE IF q % 2 = 0 THEN 10 * q ELSE 10 * (q + 1)

\* sorted(items, key=lambda x: x[1], reverse=True): stable, descending
InsertDescending(sorted, e) ==
    LET smaller == {i \in 1..Len(sorted) : sorted[i].prod < e.prod}
    IN  IF smaller = {} THEN Append(sorted, e)
        ELSE LET p == CHOOSE i \in smaller : \A j \in smaller : i <= j
             IN  SubSeq(sorted, 1, p - 1) \o <<e>> \o SubSeq(sorted, p, Len(sorted))
RECURSIVE SortedDescending(_)
SortedDescending(items) ==
    IF items = <<>> THEN <<>>
    ELSE InsertDescending(SortedDescending(SubSeq(items, 1, Len(items) - 1)),
                          items[Len(items)])

\* the mirror image: sorted(items, key=lambda x: x[1]), stable, ascending
InsertAscending(sorted, e) ==
    LET larger == {i \in 1..Len(sorted) : sorted[i].prod > e.prod}
    IN  IF larger = {} THEN Append(sorted, e)
        ELSE LET p == CHOOSE i \in larger : \A j \in larger : i <= j
             IN  SubSeq(sorted, 1, p - 1) \o <<e>> \o SubSeq(sorted, p, Len(sorted))
RECURSIVE SortedAscending(_)
SortedAscending(items) ==
    IF items = <<>> THEN <<>>
    ELSE InsertAscending(SortedAscending(SubSeq(items, 1, Len(items) - 1)),
                         items[Len(items)])

\* s[:n]
Take(s, n) == SubSeq(s, 1, IF Len(s) < n THEN Len(s) ELSE n)

-----------------------------------------------------------------------------
(* compare_rainfall_and_crops, src/tools.py:185-274 *)

\* Mutant: zero and placeholder values are averaged too.
CompareRainfall_KeepZero(state, years, scripts, json_is_reqexc) ==
    IF get_subdivisions_for_state(state) = <<>>
    THEN [ctl |-> "return", gw |-> <<>>,
          val |-> [error |-> <<"No IMD subdivision mapping found for ", state,
                    ". Please update config.py with correct subdivision names.">>]]
    ELSE With(fetch_rainfall_data(get_subdivisions_for_state(state), years, scripts,
                                  json_is_reqexc),
              LAMBDA rain :
                 LET rain_result == rain.out.val
                     annuals == [i \in 1..Len(rain_result.data) |->
                                   safe_float_convert(
                                       Get(rain_result.data[i], "annual", NoneV), 0).val]
                 IN  IF rain.out.ctl = "raise"
                     THEN [ctl |-> "raise", gw |-> rain.gw, exc |-> rain.out.exc]
                     ELSE IF ~rain_result.success
                     THEN [ctl |-> "return", gw |-> rain.gw,
                           val |-> [error |-> <<"Failed to fetch rainfall data for ",
                                     state, ": ",
                                     Get(rain_result, "error", <<"Unknown error">>)>>]]
                     ELSE With(SelectSeq(annuals, LAMBDA a : a >= 0),
                               LAMBDA annual_rainfalls :
                                  IF annual_rainfalls = <<>>
                                  THEN [ctl |-> "return", gw |-> rain.gw,
                                        val |-> [error |->
                                                  <<"No valid rainfall data found for ",
                                                    state, " in the specified period">>]]
                                  ELSE [ctl |-> "continue", gw |-> rain.gw,
                                        entry |->
                                          [average_annual_rainfall_mm |->
                                               RoundMean2(annual_rainfalls),
                                           data_points |-> Len(annual_rainfalls),
                                           subdivisions |-> get_subdivisions_for_state(state),
                                           source_url |-> rain_result.url]]))

\* lines 199-225: one iteration of the rainfall loop, for `state`; scripts
\* holds one upstream script per subdivision of the state
CompareRainfall(state, years, scripts, json_is_reqexc) ==
    IF get_subdivisions_for_state(state) = <<>>
    THEN [ctl |-> "return", gw |-> <<>>,
          val |-> [error |-> <<"No IMD subdivision mapping found for ", state,
                    ". Please update config.py with correct subdivision names.">>]]
    ELSE With(fetch_rainfall_data(get_subdivisions_for_state(state), years, scripts,
                                  json_is_reqexc),
              LAMBDA rain :
                 LET rain_result == rain.out.val
                     annuals == [i \in 1..Len(rain_result.data) |->
                                   safe_float_convert(
                                       Get(rain_result.data[i], "annual", NoneV), 0).val]
                 IN  IF rain.out.ctl = "raise"
                     THEN [ctl |-> "raise", gw |-> rain.gw, exc |-> rain.out.exc]
                     ELSE IF ~rain_result.success
                     THEN [ctl |-> "return", gw |-> rain.gw,
                           val |-> [error |-> <<"Failed to fetch rainfall data for ",
                                     state, ": ",
                                     Get(rain_result, "error", <<"Unknown error">>)>>]]
                     ELSE With(SelectSeq(annuals, LAMBDA a : a > 0),
                               LAMBDA annual_rainfalls :
                                  IF annual_rainfalls = <<>>
                                  THEN [ctl |-> "return", gw |-> rain.gw,
                                        val |-> [error |->
                                                  <<"No valid rainfall data found for ",
                                                    state, " in the specified period">>]]
                                  ELSE [ctl |-> "continue", gw |-> rain.gw,
                                        entry |->
                                          [average_annual_rainfall_mm |->
                                               RoundMean2(annual_rainfalls),
                                           data_points |-> Len(annual_rainfalls),
                                           subdivisions |-> get_subdivisions_for_state(state),
                                           source_url |-> rain_result.url]]))

\* line 243: any(crop.lower() in r.get("crop", "").lower() for crop in crops_of_type)
IsCropOfType(r, crops_of_type) ==
    LET name == Get(r, "crop", Str(<<>>))
    IN  \E i \in 1..Len(crops_of_type) : Contains(Lower(crops_of_type[i]), Lower(name.s))

\* lines 247-251: crop_production, a dict in insertion order, as the
\* sequence of its items [crop, prod]
RECURSIVE CropProduction(_, _)
CropProduction(filtered_crops, crop_production) ==
    IF filtered_crops = <<>> THEN crop_production
    ELSE LET record == Head(filtered_crops)
             crop_name == Get(record, "crop", Str(<<"U", "n", "k", "n", "o", "w", "n">>))
             production == safe_float_convert(Get(record, "production_", Num(0)), 0).val
             at == {i \in 1..Len(crop_production) : crop_production[i].crop = crop_name}
         IN  CropProduction(Tail(filtered_crops),
                 IF at = {}
                 THEN Append(crop_production, [crop |-> crop_name, prod |-> 0 + production])
                 ELSE [crop_production EXCEPT ![CHOOSE i \in at : TRUE].prod = @ + production])

\* Mutant: reverse=True is left out of the sort.
TopCrops_Ascending(crop_production) == Take(SortedAscending(crop_production), 3)

\* line 254: sorted(crop_production.items(), key=lambda x: x[1], reverse=True)[:3]
TopCrops(crop_production) == Take(SortedDescending(crop_production), 3)

\* lines 231-262: one iteration of the crop loop, for `state`
CompareCrops(state, years, crop_type, script, json_is_reqexc) ==
    With(fetch_crop_data(state, years, None, script, json_is_reqexc),
         LAMBDA crop :
            LET crop_result == crop.out.val
                crops_of_type == IF crop_type \in CROP_TYPE_KEYS
                                 THEN CROP_TYPES(crop_type) ELSE <<>>
            IN  IF crop.out.ctl = "raise"
                THEN [ctl |-> "raise", gw |-> crop.gw, exc |-> crop.out.exc]
                ELSE IF ~crop_result.success
                THEN [ctl |-> "return", gw |-> crop.gw,
                      val |-> [error |-> <<"Failed to fetch crop data for ", state, ": ",
                                Get(crop_result, "error", <<"Unknown error">>)>>]]
                ELSE IF crops_of_type = <<>>
                THEN [ctl |-> "return", gw |-> crop.gw,
                      val |-> [error |-> <<"Unknown crop type: ", crop_type,
                                ". Valid types: ", CROP_TYPE_KEYS>>]]
                ELSE IF \E i \in 1..Len(crop_result.data) :
                           Get(crop_result.data[i], "crop", Str(<<>>)).t # "str"
                THEN \* .lower() on a crop field that is null or a number
                     [ctl |-> "raise", gw |-> crop.gw, exc |-> "AttributeError"]
                ELSE With(TopCrops(CropProduction(
                              SelectSeq(crop_result.data,
                                        LAMBDA r : IsCropOfType(r, crops_of_type)),
                              <<>>)),
                          LAMBDA top_crops :
                             [ctl |-> "continue", gw |-> crop.gw,
                              entry |->
                                [top_3_crops |->
                                    [i \in 1..Len(top_crops) |->
                                       [crop |-> top_crops[i].crop,
                                        total_production |-> Round2(top_crops[i].prod)]],
                                 source_url |-> crop_result.url]]))

\* Mutant: the crop citations are taken from rainfall_data.
CompareResults_CropsCiteRainfall(state_x, state_y, years, crop_type, rainfall, crops) ==
    [query_type |-> "COMPARE_ALL",
     states |-> <<state_x, state_y>>,
     years_analyzed |-> years,
     crop_type |-> crop_type,
     rainfall_comparison |-> rainfall,
     crop_comparison |-> crops,
     citations |->
        [key \in {<<state, "_rainfall">> : state \in {state_x, state_y}}
                 \cup {<<state, "_crops">> : state \in {state_x, state_y}} |->
            rainfall[key[1]].source_url]]

\* lines 227, 264-274: the result once both loops are through
CompareResults(state_x, state_y, years, crop_type, rainfall, crops) ==
    [query_type |-> "COMPARE_ALL",
     states |-> <<state_x, state_y>>,
     years_analyzed |-> years,
     crop_type |-> crop_type,
     rainfall_comparison |-> rainfall,
     crop_comparison |-> crops,
     citations |->
        [key \in {<<state, "_rainfall">> : state \in {state_x, state_y}}
                 \cup {<<state, "_crops">> : state \in {state_x, state_y}} |->
            IF key[2] = "_rainfall" THEN rainfall[key[1]].source_url
            ELSE crops[key[1]].source_url]]

\* the way out of a routine on the outcome r of one of its steps, after the
\* Gateway calls gw made before that step
RoutineExit(r, gw) ==
    [out |-> IF r.ctl = "raise" THEN Raise(r.exc) ELSE Return(r.val), gw |-> gw \o r.gw]

\* The whole function: rain_scripts[i] holds the upstream scripts of the i-th
\* rainfall iteration (one per subdivision), crop_scripts[i] the script of the
\* i-th crop iteration.
compare_rainfall_and_crops(state_x, state_y, years, crop_type, rain_scripts, crop_scripts, json_is_reqexc) ==
    With(CompareRainfall(state_x, years, rain_scripts[1], json_is_reqexc), LAMBDA rain_x :
    IF rain_x.ctl # "continue" THEN RoutineExit(rain_x, <<>>) ELSE
    With(CompareRainfall(state_y, years, rain_scripts[2], json_is_reqexc), LAMBDA rain_y :
    IF rain_y.ctl # "continue" THEN RoutineExit(rain_y, rain_x.gw) ELSE
    With(CompareCrops(state_x, years, crop_type, crop_scripts[1], json_is_reqexc),
         LAMBDA crop_x :
    IF crop_x.ctl # "continue" THEN RoutineExit(crop_x, rain_x.gw \o rain_y.gw) ELSE
    With(CompareCrops(state_y, years, crop_type, crop_scripts[2], json_is_reqexc),
         LAMBDA crop_y :
    IF crop_y.ctl # "continue"
    THEN RoutineExit(crop_y, rain_x.gw \o rain_y.gw \o crop_x.gw)
    ELSE [out |-> Return(CompareResults(state_x, state_y, years, crop_type,
                     SetItem(SetItem(<<>>, state_x, rain_x.entry), state_y, rain_y.entry),
                     SetItem(SetItem(<<>>, state_x, crop_x.entry), state_y, crop_y.entry))),
          gw |-> rain_x.gw \o rain_y.gw \o crop_x.gw \o crop_y.gw]))))

-----------------------------------------------------------------------------
(* find_max_min_districts, src/tools.py:277-344 *)

\* the integer nearest to a / b for b > 0, a tie going to the even one
RoundDiv(a, b) ==
    LET q == a \div b
        r == a % b
    IN  IF 2 * r < b THEN q
        ELSE IF 2 * r > b THEN q + 1
        ELSE IF q % 2 = 0 THEN q ELSE q + 1

\* Mutant: the test of line 314 is left out, state_y keeps its zero records.
RECURSIVE DistrictProduction_KeepZero(_, _, _)
DistrictProduction_KeepZero(data, positive_only, district_production) ==
    IF data = <<>> THEN district_production
    ELSE LET record == Head(data)
             district == Get(record, "district_name",
                             Str(<<"U", "n", "k", "n", "o", "w", "n">>))
             production == safe_float_convert(Get(record, "production_", Num(0)), 0).val
             at == {i \in 1..Len(district_production) :
                       district_production[i].district = district}
         IN  DistrictProduction_KeepZero(Tail(data), positive_only,
                 IF at = {}
                 THEN Append(district_production,
                             [district |-> district, prod |-> 0 + production])
                 ELSE [district_production EXCEPT
                          ![CHOOSE i \in at : TRUE].prod = @ + production])

\* lines 293-297 and 310-315: district_production_x / district_production_y, a
\* dict in insertion order, as the sequence of its items [district, prod];
\* positive_only is the test of line 314, made for state_y only
RECURSIVE DistrictProduction(_, _, _)
DistrictProduction(data, positive_only, district_production) ==
    IF data = <<>> THEN district_production
    ELSE LET record == Head(data)
             district == Get(record, "district_name",
                             Str(<<"U", "n", "k", "n", "o", "w", "n">>))
             production == safe_float_convert(Get(record, "production_", Num(0)), 0).val
             at == {i \in 1..Len(district_production) :
                       district_production[i].district = district}
         IN  DistrictProduction(Tail(data), positive_only,
                 IF positive_only /\ ~(production > 0) THEN district_production
                 ELSE IF at = {}
                 THEN Append(district_production,
                             [district |-> district, prod |-> 0 + production])
                 ELSE [district_production EXCEPT
                          ![CHOOSE i \in at : TRUE].prod = @ + production])

\* line 302: max(items, key=lambda x: x[1]), the first of the largest
MaxItem(items) ==
    items[CHOOSE i \in 1..Len(items) :
             /\ \A j \in 1..Len(items) : items[j].prod <= items[i].prod
             /\ \A j \in 1..(i - 1) : items[j].prod < items[i].prod]

\* line 320: min(items, key=lambda x: x[1]), the first of the smallest
MinItem(items) ==
    items[CHOOSE i \in 1..Len(items) :
             /\ \A j \in 1..Len(items) : items[j].prod >= items[i].prod
             /\ \A j \in 1..(i - 1) : items[j].prod > items[i].prod]

\* Mutant: the citation of state_y is left out.
MaxMinResults_CitesStateXOnly(state_x, state_y, crop_z, years, max_x, min_y, url_x, url_y) ==
    LET results == [query_type |-> "MAX_MIN_CROP", crop |-> crop_z,
                    years_analyzed |-> years]
        entry_x == [max_production_district |-> max_x.district,
                    total_production |-> Round2(max_x.prod),
                    source_url |-> url_x]
        entry_y == [min_production_district |-> min_y.district,
                    total_production |-> Round2(min_y.prod),
                    source_url |-> url_y]
        comparison ==
            [production_ratio |->
                 IF min_y.prod > 0
                 THEN Num(10 * RoundDiv(100 * max_x.prod, min_y.prod))
                 ELSE Str(<<"I", "n", "f", "i", "n", "i", "t", "e">>),
             difference |-> Round2(max_x.prod - min_y.prod)]
        citations == SetItem(<<>>, state_x, url_x)
    IN  SetItem(SetItem(SetItem(SetItem(results, state_x, entry_x), state_y, entry_y),
                        "comparison", comparison),
                "citations", citations)

\* lines 322-344: the result built from the two selected items
MaxMinResults(state_x, state_y, crop_z, years, max_x, min_y, url_x, url_y) ==
    LET results == [query_type |-> "MAX_MIN_CROP", crop |-> crop_z,
                    years_analyzed |-> years]
        entry_x == [max_production_district |-> max_x.district,
                    total_production |-> Round2(max_x.prod),
                    source_url |-> url_x]
        entry_y == [min_production_district |-> min_y.district,
                    total_production |-> Round2(min_y.prod),
                    source_url |-> url_y]
        comparison ==
            [production_ratio |->
                 IF min_y.prod > 0
                 THEN Num(10 * RoundDiv(100 * max_x.prod, min_y.prod))
                 ELSE Str(<<"I", "n", "f", "i", "n", "i", "t", "e">>),
             difference |-> Round2(max_x.prod - min_y.prod)]
        citations == SetItem(SetItem(<<>>, state_x, url_x), state_y, url_y)
    IN  SetItem(SetItem(SetItem(SetItem(results, state_x, entry_x), state_y, entry_y),
                        "comparison", comparison),
                "citations", citations)

\* lines 288-302: the fetch for state_x, district_production_x and its maximum
MaxMinStateX(state_x, crop_z, years, script, json_is_reqexc) ==
    With(fetch_crop_data(state_x, years, crop_z, script, json_is_reqexc),
         LAMBDA crop_x :
    IF crop_x.out.ctl = "raise"
    THEN [ctl |-> "raise", gw |-> crop_x.gw, exc |-> crop_x.out.exc]
    ELSE IF ~crop_x.out.val.success
    THEN [ctl |-> "return", gw |-> crop_x.gw,
          val |-> [error |-> <<"Failed to fetch ", crop_z, " data for ", state_x, ": ",
                    Get(crop_x.out.val, "error", <<"Unknown error">>)>>]]
    ELSE
    With(DistrictProduction(crop_x.out.val.data, FALSE, <<>>),
         LAMBDA district_production :
    IF district_production = <<>>
    THEN [ctl |-> "return", gw |-> crop_x.gw,
          val |-> [error |-> <<"No production data found for ", crop_z, " in ", state_x>>]]
    ELSE [ctl |-> "continue", gw |-> crop_x.gw, crop_result |-> crop_x.out.val,
          district_production |-> district_production,
          max_district |-> MaxItem(district_production)]))

\* lines 305-320: the fetch for state_y, district_production_y and its minimum
MaxMinStateY(state_y, crop_z, years, script, json_is_reqexc) ==
    With(fetch_crop_data(state_y, years, crop_z, script, json_is_reqexc),
         LAMBDA crop_y :
    IF crop_y.out.ctl = "raise"
    THEN [ctl |-> "raise", gw |-> crop_y.gw, exc |-> crop_y.out.exc]
    ELSE IF ~crop_y.out.val.success
    THEN [ctl |-> "return", gw |-> crop_y.gw,
          val |-> [error |-> <<"Failed to fetch ", crop_z, " data for ", state_y, ": ",
                    Get(crop_y.out.val, "error", <<"Unknown error">>)>>]]
    ELSE
    With(DistrictProduction(crop_y.out.val.data, TRUE, <<>>),
         LAMBDA district_production :
    IF district_production = <<>>
    THEN [ctl |-> "return", gw |-> crop_y.gw,
          val |-> [error |-> <<"No production data found for ", crop_z, " in ", state_y>>]]
    ELSE [ctl |-> "continue", gw |-> crop_y.gw, crop_result |-> crop_y.out.val,
          district_production |-> district_production,
          min_district |-> MinItem(district_production)]))

\* The whole function: scripts[1] is what the upstream answers to the fetch
\* for state_x, scripts[2] to the fetch for state_y.
find_max_min_districts(state_x, state_y, crop_z, years, scripts, json_is_reqexc) ==
    With(MaxMinStateX(state_x, crop_z, years, scripts[1], json_is_reqexc), LAMBDA x :
    IF x.ctl # "continue" THEN RoutineExit(x, <<>>) ELSE
    With(MaxMinStateY(state_y, crop_z, years, scripts[2], json_is_reqexc), LAMBDA y :
    IF y.ctl # "continue" THEN RoutineExit(y, x.gw)
    ELSE [out |-> Return(MaxMinResults(state_x, state_y, crop_z, years,
                             x.max_district, y.min_district,
                             x.crop_result.url, y.crop_result.url)),
          gw |-> x.gw \o y.gw]))

-----------------------------------------------------------------------------
(* analyze_correlation_and_policy, src/tools.py:347-467 *)

\* A dict whose iteration order the code uses is the sequence of its items
\* [k, v], in insertion order.
Keys(items) == {items[i].k : i \in 1..Len(items)}
Values(items) == [i \in 1..Len(items) |-> items[i].v]
Lookup(items, k, default) ==
    IF k \in Keys(items)
    THEN items[CHOOSE i \in 1..Len(items) : items[i].k = k].v
    ELSE default
Put(items, k, v) ==
    IF k \in Keys(items)
    THEN [items EXCEPT ![CHOOSE i \in 1..Len(items) : items[i].k = k].v = v]
    ELSE Append(items, [k |-> k, v |-> v])

\* sorted(S) of a set of integers
RECURSIVE SortedSet(_)
SortedSet(S) ==
    IF S = {} THEN <<>>
    ELSE LET least == CHOOSE x \in S : \A y \in S : x <= y
         IN  <<least>> \o SortedSet(S \ {least})

RECURSIVE GCD(_, _)
GCD(a, b) == IF b = 0 THEN a ELSE GCD(b, a % b)
RECURSIVE GCDSeq(_)
GCDSeq(s) == IF s = <<>> THEN 0 ELSE GCD(Head(s), GCDSeq(Tail(s)))
RECURSIVE ProductSeq(_)
ProductSeq(s) == IF s = <<>> THEN 1 ELSE Head(s) * ProductSeq(Tail(s))

\* np.mean keeps its exact value: the quotient n / d of thousandths
Mean(values) == [n |-> SumSeq(values), d |-> Len(values)]
\* the quotients of a list over their common denominator
Denominator(means) == ProductSeq([i \in 1..Len(means) |-> means[i].d])
Numerators(means) ==
    [i \in 1..Len(means) |-> means[i].n * (Denominator(means) \div means[i].d)]
\* np.mean of a list of means
MeanOfMeans(means) ==
    [n |-> SumSeq(Numerators(means)), d |-> Denominator(means) * Len(means)]
\* round(q, 2) of a quotient of thousandths, as thousandths
RoundQuotient2(q) == 10 * RoundDiv(q.n, 10 * q.d)

\* a series moved to start at 0 and divided by the common divisor of its
\* terms: the correlation coefficient is the same, the sums stay small
Normalised(values) ==
    LET least == CHOOSE x \in {values[i] : i \in 1..Len(values)} :
                    \A i \in 1..Len(values) : x <= values[i]
        moved == [i \in 1..Len(values) |-> values[i] - least]
        g == GCDSeq(moved)
    IN  IF g = 0 THEN moved ELSE [i \in 1..Len(values) |-> moved[i] \div g]

\* a < b * sqrt(D) for integers a, b and D >= 0
LessThanRoot(a, b, D) ==
    IF a < 0
    THEN IF b >= 0 THEN TRUE
         ELSE a * a > b * b * D
    ELSE IF b <= 0 THEN FALSE
         ELSE a * a < b * b * D

\* lines 412-413, 419-420: round(np.corrcoef(xs, ys)[0, 1], 3) in thousandths;
\* nan when a series is constant. The coefficient is
\* cov / sqrt(var_x * var_y) with the sums below; it is rounded by locating
\* 2000 * cov between (2k - 1) * sqrt(D) and (2k + 1) * sqrt(D).
RoundCorrcoef3(xs, ys) ==
    LET X == Normalised(xs)
        Y == Normalised(ys)
        n == Len(X)
        cov == n * SumSeq([i \in 1..n |-> X[i] * Y[i]]) - SumSeq(X) * SumSeq(Y)
        var_x == n * SumSeq([i \in 1..n |-> X[i] * X[i]]) - SumSeq(X) * SumSeq(X)
        var_y == n * SumSeq([i \in 1..n |-> Y[i] * Y[i]]) - SumSeq(Y) * SumSeq(Y)
        D == var_x * var_y
    IN  IF D = 0 THEN NaN
        ELSE Float(CHOOSE k \in -1000..1000 :
                      /\ ~LessThanRoot(2000 * cov, 2 * k - 1, D)
                      /\ k = 1000 \/ LessThanRoot(2000 * cov, 2 * k + 1, D))

\* lines 374-381: rainfall_by_year, year -> list of annual values. int() of
\* the year field has succeeded on the same field in the fetcher (line 151).
RECURSIVE RainfallByYear(_, _)
RainfallByYear(data, rainfall_by_year) ==
    IF data = <<>> THEN rainfall_by_year
    ELSE LET record == Head(data)
             year == PyInt(Get(record, "year", Num(0))).v
             annual == safe_float_convert(Get(record, "annual", NoneV), 0).val
         IN  RainfallByYear(Tail(data),
                 IF year # 0 /\ annual > 0
                 THEN Put(rainfall_by_year, year,
                          Append(Lookup(rainfall_by_year, year, <<>>), annual))
                 ELSE rainfall_by_year)

\* line 397: CROP_ATTRIBUTES.get(crop, {}).get("Water_Use", "Unknown")
WaterUse(crop) ==
    IF crop.t = "str" /\ crop.s \in CROP_ATTRIBUTE_KEYS
    THEN CROP_ATTRIBUTES(crop.s).Water_Use
    ELSE "Unknown"

\* lines 389-402: high_water_prod (water_use = "High") and low_water_prod
\* (water_use = "Low"), year -> summed production
RECURSIVE WaterProd(_, _, _)
WaterProd(data, water_use, prod) ==
    IF data = <<>> THEN prod
    ELSE LET record == Head(data)
             year == PyInt(Get(record, "crop_year", Num(0))).v
             crop == Get(record, "crop", Str(<<>>))
             production == safe_float_convert(Get(record, "production_", Num(0)), 0).val
         IN  WaterProd(Tail(data), water_use,
                 IF WaterUse(crop) = water_use
                 THEN Put(prod, year, Lookup(prod, year, 0) + production)
                 ELSE prod)

\* lines 373-405: the series of a state whose two fetches succeeded
PolicySeries(rain_result, crop_result) ==
    LET rainfall_by_year == RainfallByYear(rain_result.data, <<>>)
        avg_rainfall_by_year ==
            [i \in 1..Len(rainfall_by_year) |->
                [k |-> rainfall_by_year[i].k, v |-> Mean(rainfall_by_year[i].v)]]
        high_water_prod == WaterProd(crop_result.data, "High", <<>>)
        low_water_prod == WaterProd(crop_result.data, "Low", <<>>)
    IN  [avg_rainfall_by_year |-> avg_rainfall_by_year,
         high_water_prod |-> high_water_prod,
         low_water_prod |-> low_water_prod,
         common_years |-> SortedSet(Keys(avg_rainfall_by_year)
                                      \cap Keys(high_water_prod) \cap Keys(low_water_prod))]

\* lines 408-426: the entry of a state with its series; rainfall_vals are the
\* yearly means over their common denominator
StateAnalysis(series, rain_url, crop_url) ==
    LET common_years == series.common_years
        n == Len(common_years)
        rainfall_vals ==
            Numerators([i \in 1..n |->
                           Lookup(series.avg_rainfall_by_year, common_years[i], 0)])
        high_water_vals == [i \in 1..n |-> Lookup(series.high_water_prod, common_years[i], 0)]
        low_water_vals == [i \in 1..n |-> Lookup(series.low_water_prod, common_years[i], 0)]
    IN  [avg_annual_rainfall_mm |->
             RoundQuotient2(MeanOfMeans(Values(series.avg_rainfall_by_year))),
         high_water_crop_production_avg |-> RoundMean2(Values(series.high_water_prod)),
         low_water_crop_production_avg |-> RoundMean2(Values(series.low_water_prod)),
         correlation_rainfall_vs_high_water_crops |->
             RoundCorrcoef3(rainfall_vals, high_water_vals),
         correlation_rainfall_vs_low_water_crops |->
             RoundCorrcoef3(rainfall_vals, low_water_vals),
         years_analyzed |-> n,
         sources |-> [rainfall |-> rain_url, crops |-> crop_url]]

\* Mutant: the test of line 407 is written `len(common_years) >= 2`.
PolicyIteration_TwoYearsEnough(state_analysis, state, years, upstream, json_is_reqexc) ==
    IF get_subdivisions_for_state(state) = <<>>
    THEN [ctl |-> "continue", gw |-> <<>>, state_analysis |-> state_analysis]
    ELSE
    With(fetch_rainfall_data(get_subdivisions_for_state(state), years, upstream.rain,
                             json_is_reqexc),
         LAMBDA rain :
    IF rain.out.ctl = "raise"
    THEN [ctl |-> "raise", gw |-> rain.gw, exc |-> rain.out.exc]
    ELSE
    With(fetch_crop_data(state, years, None, upstream.crop, json_is_reqexc),
         LAMBDA crop :
    IF crop.out.ctl = "raise"
    THEN [ctl |-> "raise", gw |-> rain.gw \o crop.gw, exc |-> crop.out.exc]
    ELSE IF ~rain.out.val.success \/ ~crop.out.val.success
    THEN [ctl |-> "continue", gw |-> rain.gw \o crop.gw, state_analysis |-> state_analysis]
    ELSE
    With(PolicySeries(rain.out.val, crop.out.val),
         LAMBDA series :
    [ctl |-> "continue", gw |-> rain.gw \o crop.gw,
     state_analysis |->
         IF Len(series.common_years) >= 2
         THEN Put(state_analysis, state,
                  StateAnalysis(series, rain.out.val.url, crop.out.val.url))
         ELSE state_analysis])))

\* lines 359-426: one iteration of `for state in [state_x, state_y]` on
\* state_analysis; upstream = [rain |-> one script per subdivision,
\* crop |-> the script of the crop fetch]
PolicyIteration(state_analysis, state, years, upstream, json_is_reqexc) ==
    IF get_subdivisions_for_state(state) = <<>>
    THEN [ctl |-> "continue", gw |-> <<>>, state_analysis |-> state_analysis]
    ELSE
    With(fetch_rainfall_data(get_subdivisions_for_state(state), years, upstream.rain,
                             json_is_reqexc),
         LAMBDA rain :
    IF rain.out.ctl = "raise"
    THEN [ctl |-> "raise", gw |-> rain.gw, exc |-> rain.out.exc]
    ELSE
    With(fetch_crop_data(state, years, None, upstream.crop, json_is_reqexc),
         LAMBDA crop :
    IF crop.out.ctl = "raise"
    THEN [ctl |-> "raise", gw |-> rain.gw \o crop.gw, exc |-> crop.out.exc]
    ELSE IF ~rain.out.val.success \/ ~crop.out.val.success
    THEN [ctl |-> "continue", gw |-> rain.gw \o crop.gw, state_analysis |-> state_analysis]
    ELSE
    With(PolicySeries(rain.out.val, crop.out.val),
         LAMBDA series :
    [ctl |-> "continue", gw |-> rain.gw \o crop.gw,
     state_analysis |->
         IF Len(series.common_years) >= 3
         THEN Put(state_analysis, state,
                  StateAnalysis(series, rain.out.val.url, crop.out.val.url))
         ELSE state_analysis])))

\* abs() and the comparisons of floats that may be nan
Abs(x) == IF x.nan THEN NaN ELSE Float(IF x.v < 0 THEN -x.v ELSE x.v)
Less(x, y) == ~x.nan /\ ~y.nan /\ x.v < y.v

\* f"{x:.2f}" is kept as the term Format2f(x)
Format2f(x) == [format |-> ".2f", of |-> x]

\* Mutant: the third rule compares the correlations with their signs.
Recommendations_SignedComparison(state, analysis) ==
    LET high_corr == analysis.correlation_rainfall_vs_high_water_crops
        low_corr == analysis.correlation_rainfall_vs_low_water_crops
        avg_rainfall == analysis.avg_annual_rainfall_mm
    IN  (IF avg_rainfall < 800000
         THEN <<[state |-> state,
                 recommendation |-> "Promote drought-resistant crops (millets, pulses)",
                 rationale |-> <<"Low average rainfall (", avg_rainfall,
                                 "mm) makes high-water crops risky">>,
                 supporting_data |-> <<"High-water crops show ", Format2f(Abs(high_corr)),
                                       " correlation sensitivity">>]>>
         ELSE <<>>)
        \o
        (IF Less(Float(700), high_corr)
         THEN <<[state |-> state,
                 recommendation |->
                     "Expand irrigation infrastructure for water-intensive crops",
                 rationale |-> <<"Strong positive correlation (", Format2f(high_corr),
                                 ") shows high-water crops respond well to rainfall">>,
                 supporting_data |-> "Historical production aligns with rainfall patterns"]>>
         ELSE <<>>)
        \o
        (IF Less(low_corr, high_corr)
         THEN <<[state |-> state,
                 recommendation |-> "Drought-resistant crops provide production stability",
                 rationale |-> <<"Lower correlation (", Format2f(low_corr),
                                 ") indicates resilience to rainfall variation">>,
                 supporting_data |-> "Consistent production despite climate variability"]>>
         ELSE <<>>)

\* lines 433-460: the recommendations of one state of state_analysis
Recommendations(state, analysis) ==
    LET high_corr == analysis.correlation_rainfall_vs_high_water_crops
        low_corr == analysis.correlation_rainfall_vs_low_water_crops
        avg_rainfall == analysis.avg_annual_rainfall_mm
    IN  (IF avg_rainfall < 800000
         THEN <<[state |-> state,
                 recommendation |-> "Promote drought-resistant crops (millets, pulses)",
                 rationale |-> <<"Low average rainfall (", avg_rainfall,
                                 "mm) makes high-water crops risky">>,
                 supporting_data |-> <<"High-water crops show ", Format2f(Abs(high_corr)),
                                       " correlation sensitivity">>]>>
         ELSE <<>>)
        \o
        (IF Less(Float(700), high_corr)
         THEN <<[state |-> state,
                 recommendation |->
                     "Expand irrigation infrastructure for water-intensive crops",
                 rationale |-> <<"Strong positive correlation (", Format2f(high_corr),
                                 ") shows high-water crops respond well to rainfall">>,
                 supporting_data |-> "Historical production aligns with rainfall patterns"]>>
         ELSE <<>>)
        \o
        (IF Less(Abs(low_corr), Abs(high_corr))
         THEN <<[state |-> state,
                 recommendation |-> "Drought-resistant crops provide production stability",
                 rationale |-> <<"Lower correlation (", Format2f(low_corr),
                                 ") indicates resilience to rainfall variation">>,
                 supporting_data |-> "Consistent production despite climate variability"]>>
         ELSE <<>>)

\* lines 431-460: the loop over state_analysis.items()
RECURSIVE PolicyRecommendations(_)
PolicyRecommendations(state_analysis) ==
    IF state_analysis = <<>> THEN <<>>
    ELSE Recommendations(Head(state_analysis).k, Head(state_analysis).v)
         \o PolicyRecommendations(Tail(state_analysis))

\* lines 351-355, 428, 462-467
PolicyResults(state_x, state_y, years, state_analysis) ==
    [query_type |-> "POLICY_ADVICE",
     states |-> <<state_x, state_y>>,
     years_analyzed |-> years,
     state_analysis |-> state_analysis,
     policy_recommendations |-> PolicyRecommendations(state_analysis),
     citations |-> [i \in 1..Len(state_analysis) |->
                       [k |-> state_analysis[i].k, v |-> state_analysis[i].v.sources]]]

\* The whole function: upstream[i] is what the upstream answers during the
\* i-th iteration of the loop over [state_x, state_y].
analyze_correlation_and_policy(state_x, state_y, years, upstream, json_is_reqexc) ==
    With(PolicyIteration(<<>>, state_x, years, upstream[1], json_is_reqexc),
         LAMBDA first :
    IF first.ctl = "raise" THEN [out |-> Raise(first.exc), gw |-> first.gw]
    ELSE
    With(PolicyIteration(first.state_analysis, state_y, years, upstream[2], json_is_reqexc),
         LAMBDA second :
    IF second.ctl = "raise"
    THEN [out |-> Raise(second.exc), gw |-> first.gw \o second.gw]
    ELSE [out |-> Return(PolicyResults(state_x, state_y, years, second.state_analysis)),
          gw |-> first.gw \o second.gw]))

-----------------------------------------------------------------------------
(* analyze_agricultural_data_func, src/tools.py:492-525 *)

\* json.dumps(obj, indent=indent): the text, kept as the term of its argument
json_dumps(obj, indent) == [json |-> obj, indent |-> indent]

\* `not x` on an Optional[str]
Falsy(x) == x = None \/ x = ""

\* Mutant: MAX_MIN_CROP is dispatched without the test of crop_z.
Dispatch_CropZUnchecked(metric, crop_type, crop_z) ==
    IF metric = "COMPARE_ALL"
    THEN IF Falsy(crop_type)
         THEN Return(json_dumps(
                  [error |-> <<"crop_type", " required for COMPARE_ALL metric">>], None))
         ELSE [ctl |-> "call", routine |-> "compare_rainfall_and_crops"]
    ELSE IF metric = "MAX_MIN_CROP"
    THEN [ctl |-> "call", routine |-> "find_max_min_districts"]
    ELSE IF metric = "POLICY_ADVICE"
    THEN [ctl |-> "call", routine |-> "analyze_correlation_and_policy"]
    ELSE Return(json_dumps([error |-> <<"Unknown metric: ", metric>>], None))

\* lines 506-520: the routine to call, or the error text returned at once
Dispatch(metric, crop_type, crop_z) ==
    IF metric = "COMPARE_ALL"
    THEN IF Falsy(crop_type)
         THEN Return(json_dumps(
                  [error |-> <<"crop_type", " required for COMPARE_ALL metric">>], None))
         ELSE [ctl |-> "call", routine |-> "compare_rainfall_and_crops"]
    ELSE IF metric = "MAX_MIN_CROP"
    THEN IF Falsy(crop_z)
         THEN Return(json_dumps(
                  [error |-> <<"crop_z", " required for MAX_MIN_CROP metric">>], None))
         ELSE [ctl |-> "call", routine |-> "find_max_min_districts"]
    ELSE IF metric = "POLICY_ADVICE"
    THEN [ctl |-> "call", routine |-> "analyze_correlation_and_policy"]
    ELSE Return(json_dumps([error |-> <<"Unknown metric: ", metric>>], None))

\* Mutant: the try has no except clause.
Serialize_NoExcept(routine_out) ==
    IF routine_out.ctl = "raise"
    THEN routine_out
    ELSE Return(json_dumps(routine_out.val, 2))

\* lines 522-525: the outcome of the facade on the outcome of the routine
Serialize(routine_out) ==
    IF routine_out.ctl = "raise"
    THEN Return(json_dumps([error |-> <<"Analysis failed: ", routine_out.exc>>], None))
    ELSE Return(json_dumps(routine_out.val, 2))

-----------------------------------------------------------------------------
(* The upstream, as make_api_call sees it: what one HTTP request can end in *)

NumReasons == 2
Reasons == 1..NumReasons

\* one raw record of either resource, enough for the Gateway (it never looks inside)
SampleRecord == [year |-> Num(2010000)]

DictBody(d) == [isdict |-> TRUE, d |-> d]
\* a JSON body that is not an object: [], 3, "x", null
NonDictBody == [isdict |-> FALSE, d |-> <<>>]

ApiBodies ==
    {DictBody([status |-> "ok", records |-> recs, total |-> n]) :
        recs \in {<<>>, <<SampleRecord>>}, n \in {0, 7}}
    \cup {DictBody([status |-> "ok"]),
          DictBody([status |-> "error", message |-> "Key not authorised"]),
          DictBody([status |-> "error"]),
          DictBody([status |-> "failed", records |-> <<SampleRecord>>]),
          DictBody([records |-> <<SampleRecord>>, total |-> 7]),
          DictBody(<<>>),
          NonDictBody}

TransportFailures == {[k |-> kind, reason |-> r] : kind \in TransportKinds, r \in Reasons}
HTTPErrors == {[k |-> "HTTPError", reason |-> code] : code \in {404, 500}}
NotJSONs == {[k |-> "NotJSON", reason |-> 0]}
BodyOutcomes == {[k |-> "Body", body |-> b] : b \in ApiBodies}

ApiFilters == {[state_name |-> "Karnataka"], [subdivision |-> "Kerala"]}

-----------------------------------------------------------------------------
(* make_api_call as a state machine: one action per HTTP request *)

ApiFrame == UNCHANGED <<fetch_vars, compare_vars, facade_vars, maxmin_vars, sanitizer_vars>>
FetchFrame == UNCHANGED <<api_vars, compare_vars, facade_vars, maxmin_vars, sanitizer_vars>>
CompareFrame == UNCHANGED <<api_vars, fetch_vars, facade_vars, maxmin_vars, sanitizer_vars>>
FacadeFrame == UNCHANGED <<api_vars, fetch_vars, compare_vars, maxmin_vars, sanitizer_vars>>
MaxMinFrame == UNCHANGED <<api_vars, fetch_vars, compare_vars, facade_vars, sanitizer_vars>>
SanitizerFrame ==
    UNCHANGED <<api_vars, fetch_vars, compare_vars, facade_vars, maxmin_vars>>

\* lines 29-52: the call starts, no request issued yet
ApiCall ==
    /\ api_pc = "idle"
    /\ \E rid \in {CROP_RESOURCE_ID, RAIN_RESOURCE_ID}, f \in ApiFilters, j \in BOOLEAN :
          api_args' = [resource_id |-> rid, filters |-> f, json_is_reqexc |-> j]
    /\ api_pc' = "loop"
    /\ attempt' = 0
    /\ http_log' = <<>>
    /\ api_out' = NoOutcome
    /\ ApiFrame

\* lines 53-88: requests.get is issued and ends in o
ApiRequest(o) ==
    /\ api_pc = "loop"
    /\ attempt < MAX_RETRIES
    /\ http_log' = Append(http_log, o)
    /\ \E r \in {ApiAttempt(api_args.resource_id, api_args.filters, attempt, o,
                           api_args.json_is_reqexc)} :
           IF r.ctl = "continue"
           THEN IF attempt + 1 < MAX_RETRIES
                THEN /\ attempt' = attempt + 1
                     /\ UNCHANGED <<api_pc, api_out>>
                ELSE \* line 88, after the loop
                     /\ attempt' = attempt
                     /\ api_pc' = "returned"
                     /\ api_out' = Return([success |-> FALSE,
                                           error |-> <<"Max retries exceeded">>])
           ELSE /\ attempt' = attempt
                /\ api_pc' = IF r.ctl = "raise" THEN "raised" ELSE "returned"
                /\ api_out' = r
    /\ UNCHANGED api_args
    /\ ApiFrame

AttemptTransportFailure == \E o \in TransportFailures : ApiRequest(o)
AttemptHTTPError == \E o \in HTTPErrors : ApiRequest(o)
AttemptNotJSON == \E o \in NotJSONs : ApiRequest(o)
AttemptBody == \E o \in BodyOutcomes : ApiRequest(o)

ApiNext ==
    \/ ApiCall
    \/ AttemptTransportFailure
    \/ AttemptHTTPError
    \/ AttemptNotJSON
    \/ AttemptBody

-----------------------------------------------------------------------------
(* The upstream, as the fetchers see it: what it answers to one Gateway call *)

MaxCropRecs == 2
MaxRainRecs == 2

RECURSIVE SeqsUpTo(_, _)
SeqsUpTo(S, n) ==
    IF n = 0 THEN {<<>>}
    ELSE LET shorter == SeqsUpTo(S, n - 1)
         IN  shorter \cup {Append(q, x) : q \in {t \in shorter : Len(t) = n - 1}, x \in S}

OkScript(recs) ==
    <<[k |-> "Body",
       body |-> DictBody([status |-> "ok", records |-> recs, total |-> Len(recs)])]>>

\* calls that end in success = false: an API error, and retries used up
FailScripts ==
    {<<[k |-> "Body",
        body |-> DictBody([status |-> "error", message |-> "Key not authorised"])]>>,
     <<[k |-> "ConnectionError", reason |-> 1], [k |-> "HTTPError", reason |-> 500],
       [k |-> "Timeout", reason |-> 1]>>}
\* calls that raise: HTTP 200 with a JSON body that is not an object
RaiseScripts == {<<[k |-> "Body", body |-> NonDictBody]>>}

\* crop_year as the upstream may send it: a number, a float, a numeric
\* string, a string that is no integer, null; or the key is missing
CropYearFields ==
    {Num(2005000), Num(2006000), Num(2010000), Num(2011000), Num(2010900),
     Str(<<"2", "0", "0", "8">>), Str(<<"2", "0", "x", "8">>), NoneV}
FetchProductions == {Str(<<"N", "A">>), Str(<<"1", "2", ".", "5">>)}
\* the last one: a record of 2010 whose production is beyond the float range
FetchCropRecords ==
    {[crop_year |-> y, production_ |-> p] : y \in CropYearFields, p \in FetchProductions}
    \cup {[production_ |-> p] : p \in FetchProductions}
    \cup {[crop_year |-> Num(2010000), production_ |-> BigInt]}
FetchCropScripts ==
    {OkScript(recs) : recs \in SeqsUpTo(FetchCropRecords, MaxCropRecs)}
    \cup FailScripts \cup RaiseScripts

\* 2010 is in every window, 2006 in the window of years = 5 only; the last
\* one is a record of 2010 whose annual rainfall is beyond the float range
FetchRainRecords ==
    {[year |-> Num(2010000), annual |-> Str(<<"1", "2", "0", "0", ".", "5">>)],
     [year |-> Str(<<"2", "0", "0", "6">>), annual |-> Str(<<"N", "A">>)],
     [year |-> Num(2010000), annual |-> BigInt]}
FetchRainScripts ==
    {OkScript(recs) : recs \in SeqsUpTo(FetchRainRecords, MaxRainRecs)}
    \cup FailScripts \cup RaiseScripts

FetchCropStates == {"Kerala"}
FetchRainStates == {"Kerala", "Andhra Pradesh", "Karnataka"}
FetchYears == {1, 5}
\* the build the fetchers run on: requests >= 2.27
JsonIsReqExc == TRUE

-----------------------------------------------------------------------------
(* The fetchers as a state machine: fetch_crop_data in one step (it makes   *)
(* one Gateway call), fetch_rainfall_data one step per subdivision          *)

\* fetch_crop_data(state_name, years, crop_name), lines 91-122
FetchCrop ==
    /\ f_pc = "idle"
    /\ \E state_name \in FetchCropStates, years \in FetchYears, crop_name \in {None, "Rice"},
          script \in FetchCropScripts :
          \E r \in {fetch_crop_data(state_name, years, crop_name, script, JsonIsReqExc)} :
              /\ f_args' = [fn |-> "fetch_crop_data", state_name |-> state_name,
                            years |-> years, crop_name |-> crop_name]
              /\ f_acc' = [RainLocals EXCEPT !.gw = r.gw]
              /\ f_out' = r.out
              /\ f_pc' = IF r.out.ctl = "raise" THEN "raised" ELSE "returned"
    /\ FetchFrame

\* fetch_rainfall_data(subdivisions, years), lines 135-142
RainCall ==
    /\ f_pc = "idle"
    /\ \E state_name \in FetchRainStates, years \in FetchYears :
          f_args' = [fn |-> "fetch_rainfall_data",
                     subdivisions |-> get_subdivisions_for_state(state_name),
                     years |-> years]
    /\ f_acc' = RainLocals
    /\ f_pc' = "rain_loop"
    /\ f_out' = NoOutcome
    /\ FetchFrame

\* lines 144-162: the next subdivision is fetched and filtered
RainNextSubdivision ==
    /\ f_pc = "rain_loop"
    /\ Len(f_acc.gw) < Len(f_args.subdivisions)
    /\ \E script \in FetchRainScripts :
          \E it \in {RainIteration(f_acc, f_args.subdivisions[Len(f_acc.gw) + 1],
                                    f_args.years, script, JsonIsReqExc)} :
              /\ f_acc' = it.acc
              /\ IF it.ctl = "raise"
                 THEN f_pc' = "raised" /\ f_out' = Raise(it.exc)
                 ELSE UNCHANGED <<f_pc, f_out>>
    /\ UNCHANGED f_args
    /\ FetchFrame

\* lines 164-178: the loop is over, the result is built
RainDone ==
    /\ f_pc = "rain_loop"
    /\ Len(f_acc.gw) = Len(f_args.subdivisions)
    /\ f_out' = Return(RainReturn(f_acc))
    /\ f_pc' = "returned"
    /\ UNCHANGED <<f_args, f_acc>>
    /\ FetchFrame

FetchNext == FetchCrop \/ RainCall \/ RainNextSubdivision \/ RainDone

-----------------------------------------------------------------------------
(* The upstream and the requests of compare_rainfall_and_crops *)

\* the crop records the upstream serves during one call, over both states
MaxCompareCropRecs == 4

Chars_Tur == <<"T", "u", "r">>
Chars_tur == <<"t", "u", "r">>
Chars_Gram == <<"G", "r", "a", "m">>
Chars_Moong == <<"M", "o", "o", "n", "g">>
Chars_Rice == <<"R", "i", "c", "e">>

CropRecord(crop, production, crop_year) ==
    [crop |-> Str(crop), production_ |-> production, crop_year |-> Num(1000 * crop_year)]

\* productions 1.004, 1.0 and 0.004; four crop names of the Pulses category,
\* one name outside it, one record outside the window of years = 5
CompareCropRecords ==
    {CropRecord(Chars_Tur, Num(1004), 2010),
     CropRecord(Chars_tur, Str(<<"1", ".", "0">>), 2010),
     CropRecord(Chars_Gram, Num(4), 2010),
     CropRecord(Chars_Moong, Str(<<"1", ".", "0">>), 2006),
     CropRecord(Chars_Rice, Str(<<"1", ".", "0">>), 2010),
     CropRecord(Chars_Tur, Str(<<"1", ".", "0">>), 2005)}

\* rainfall records of one subdivision: 1200.5 and 800 mm, a placeholder, a
\* zero and a negative value inside the window of years = 5, 999 mm before it
CompareMixedRainRecords ==
    <<[year |-> Num(2010000), annual |-> Str(<<"1", "2", "0", "0", ".", "5">>)],
      [year |-> Num(2009000), annual |-> Str(<<"N", "A">>)],
      [year |-> Num(2008000), annual |-> Num(0)],
      [year |-> Num(2007000), annual |-> Str(<<"-", "5", ".", "0">>)],
      [year |-> Num(2006000), annual |-> Num(800000)],
      [year |-> Num(2005000), annual |-> Num(999000)]>>
\* in-window records without any positive value
CompareNoRainRecords ==
    <<[year |-> Num(2010000), annual |-> Str(<<"N", "A">>)],
      [year |-> Num(2009000), annual |-> Num(0)],
      [year |-> Num(2008000), annual |-> Str(<<"-", "5", ".", "0">>)]>>
CompareRainScripts ==
    {OkScript(CompareMixedRainRecords), OkScript(CompareNoRainRecords)} \cup FailScripts

\* "Atlantis" has no entry in IMD_SUBDIVISION_MAP, "Grains" none in CROP_TYPES
CompareStatePairs ==
    {<<"Kerala", "Goa">>, <<"Kerala", "Atlantis">>, <<"Atlantis", "Goa">>}
CompareCropTypes == {"Pulses", "Grains"}
CompareYears == {5}

GatewaySucceeded(c) == c.out.ctl = "return" /\ c.out.val.success
GatewayFailed(c) == c.out.ctl = "return" /\ ~c.out.val.success
IsCropCall(c) == c.resource_id = CROP_RESOURCE_ID
\* the records a Gateway call got from the upstream
ServedRecords(c) == IF GatewaySucceeded(c) THEN c.out.val.data ELSE <<>>
RECURSIVE ServedCropRecords(_)
ServedCropRecords(gw) ==
    IF gw = <<>> THEN 0
    ELSE (IF IsCropCall(Head(gw)) THEN Len(ServedRecords(Head(gw))) ELSE 0)
         + ServedCropRecords(Tail(gw))

CompareCropScripts(served) ==
    {OkScript(recs) : recs \in SeqsUpTo(CompareCropRecords, MaxCompareCropRecs - served)}
    \cup FailScripts \cup RaiseScripts

-----------------------------------------------------------------------------
(* compare_rainfall_and_crops as a state machine: one step per loop        *)
(* iteration, one for the return                                           *)

CompareStates == <<c_args.state_x, c_args.state_y>>

\* lines 185-198
CompareCall ==
    /\ c_pc = "idle"
    /\ \E p \in CompareStatePairs, years \in CompareYears, crop_type \in CompareCropTypes :
          c_args' = [state_x |-> p[1], state_y |-> p[2], years |-> years,
                     crop_type |-> crop_type]
    /\ c_pc' = "rainfall"
    /\ c_i' = 1
    /\ rainfall_data' = <<>>
    /\ crop_data' = <<>>
    /\ c_gw' = <<>>
    /\ c_out' = NoOutcome
    /\ CompareFrame

\* the step taken on the outcome r of a loop iteration
CompareAdvance(r, next_pc) ==
    /\ c_gw' = c_gw \o r.gw
    /\ IF r.ctl = "continue"
       THEN /\ c_i' = IF c_i = 2 THEN 1 ELSE 2
            /\ c_pc' = IF c_i = 2 THEN next_pc ELSE c_pc
            /\ c_out' = c_out
       ELSE /\ c_i' = c_i
            /\ c_pc' = IF r.ctl = "raise" THEN "raised" ELSE "returned"
            /\ c_out' = IF r.ctl = "raise" THEN Raise(r.exc) ELSE Return(r.val)

\* lines 199-225: the rainfall of the next state
CompareRainfallStep ==
    /\ c_pc = "rainfall"
    /\ LET state == CompareStates[c_i]
       IN  \E scripts \in [1..Len(get_subdivisions_for_state(state)) -> CompareRainScripts] :
              \E r \in {CompareRainfall(state, c_args.years, scripts, JsonIsReqExc)} :
                  /\ CompareAdvance(r, "crops")
                  /\ rainfall_data' = IF r.ctl = "continue"
                                      THEN SetItem(rainfall_data, state, r.entry)
                                      ELSE rainfall_data
    /\ UNCHANGED <<c_args, crop_data>>
    /\ CompareFrame

\* lines 231-262: the crops of the next state
CompareCropsStep ==
    /\ c_pc = "crops"
    /\ LET state == CompareStates[c_i]
       IN  \E script \in CompareCropScripts(ServedCropRecords(c_gw)) :
              \E r \in {CompareCrops(state, c_args.years, c_args.crop_type, script,
                                      JsonIsReqExc)} :
                  /\ CompareAdvance(r, "results")
                  /\ crop_data' = IF r.ctl = "continue"
                                  THEN SetItem(crop_data, state, r.entry)
                                  ELSE crop_data
    /\ UNCHANGED <<c_args, rainfall_data>>
    /\ CompareFrame

\* lines 264-274
CompareReturn ==
    /\ c_pc = "results"
    /\ c_out' = Return(CompareResults(c_args.state_x, c_args.state_y, c_args.years,
                                      c_args.crop_type, rainfall_data, crop_data))
    /\ c_pc' = "returned"
    /\ UNCHANGED <<c_args, c_i, rainfall_data, crop_data, c_gw>>
    /\ CompareFrame

CompareNext == CompareCall \/ CompareRainfallStep \/ CompareCropsStep \/ CompareReturn

-----------------------------------------------------------------------------
(* The requests and the upstream of analyze_agricultural_data_func *)

FacadeStatePairs == {<<"Kerala", "Goa">>, <<"Kerala", "Atlantis">>}
FacadeYears == {5}
\* "BOGUS" and "compare_all" are no metric of the facade
FacadeMetrics == {"COMPARE_ALL", "MAX_MIN_CROP", "POLICY_ADVICE", "BOGUS", "compare_all"}
FacadeCropTypes == {None, "", "Pulses", "Grains"}
FacadeCropZs == {None, "", "Rice"}

Chars_A == <<"A">>
Chars_B == <<"B">>
DistrictRecord(crop, district, production, crop_year) ==
    [crop |-> crop, district_name |-> Str(district), production_ |-> Num(production),
     crop_year |-> Num(1000 * crop_year)]

\* three years of rainfall, of a high-water and of a low-water crop
FacadeRainRecords ==
    <<[year |-> Num(2008000), annual |-> Num(700000)],
      [year |-> Num(2009000), annual |-> Num(800000)],
      [year |-> Num(2010000), annual |-> Num(900000)]>>
FacadeCropRecords ==
    <<DistrictRecord(Str(Chars_Rice), Chars_A, 10000, 2008),
      DistrictRecord(Str(Chars_Rice), Chars_B, 20000, 2009),
      DistrictRecord(Str(Chars_Rice), Chars_A, 30000, 2010),
      DistrictRecord(Str(Chars_Tur), Chars_A, 3000, 2008),
      DistrictRecord(Str(Chars_Tur), Chars_B, 2000, 2009),
      DistrictRecord(Str(Chars_Tur), Chars_B, 2000, 2010)>>
\* a record whose crop field is null
NullCropRecord == DistrictRecord(NoneV, Chars_A, 1000, 2010)

FacadeFailScript ==
    <<[k |-> "Body",
       body |-> DictBody([status |-> "error", message |-> "Key not authorised"])]>>
\* three years of rainfall below 800 mm on average
FacadeLowRainRecords ==
    <<[year |-> Num(2008000), annual |-> Num(600000)],
      [year |-> Num(2009000), annual |-> Num(700000)],
      [year |-> Num(2010000), annual |-> Num(800000)]>>
FacadeRainScripts ==
    {OkScript(FacadeRainRecords), OkScript(FacadeLowRainRecords), FacadeFailScript}
    \cup RaiseScripts
\* both crops fall as the rainfall rises, the low-water crop in equal steps
FacadeFallingCropRecords ==
    <<DistrictRecord(Str(Chars_Rice), Chars_A, 20000, 2008),
      DistrictRecord(Str(Chars_Rice), Chars_B, 20000, 2009),
      DistrictRecord(Str(Chars_Rice), Chars_A, 10000, 2010),
      DistrictRecord(Str(Chars_Tur), Chars_A, 3000, 2008),
      DistrictRecord(Str(Chars_Tur), Chars_B, 2000, 2009),
      DistrictRecord(Str(Chars_Tur), Chars_B, 1000, 2010)>>
\* the high-water crop has the same production every year
FacadeConstantCropRecords ==
    <<DistrictRecord(Str(Chars_Rice), Chars_A, 10000, 2008),
      DistrictRecord(Str(Chars_Rice), Chars_B, 10000, 2009),
      DistrictRecord(Str(Chars_Rice), Chars_A, 10000, 2010),
      DistrictRecord(Str(Chars_Tur), Chars_A, 3000, 2008),
      DistrictRecord(Str(Chars_Tur), Chars_B, 2000, 2009),
      DistrictRecord(Str(Chars_Tur), Chars_B, 2000, 2010)>>
\* the low-water crop has records in two of the three years only
FacadeTwoYearCropRecords == SubSeq(FacadeCropRecords, 1, 5)
FacadeCropScripts ==
    {OkScript(FacadeCropRecords), OkScript(FacadeTwoYearCropRecords),
     OkScript(FacadeFallingCropRecords), OkScript(FacadeConstantCropRecords),
     OkScript(<<NullCropRecord>>), FacadeFailScript}
    \cup RaiseScripts

\* one rainfall script per subdivision of the state
FacadeRainUpstream(state) ==
    [1..Len(get_subdivisions_for_state(state)) -> FacadeRainScripts]

-----------------------------------------------------------------------------
(* analyze_agricultural_data_func as a state machine: the dispatch, the     *)
(* routine it calls, the serialization of the routine's outcome             *)

\* lines 492-520
ToolCall ==
    /\ t_pc = "idle"
    /\ \E p \in FacadeStatePairs, years \in FacadeYears, metric \in FacadeMetrics,
          crop_type \in FacadeCropTypes, crop_z \in FacadeCropZs :
          LET d == Dispatch(metric, crop_type, crop_z)
          IN  /\ t_args' = [state_x |-> p[1], state_y |-> p[2], years |-> years,
                            metric |-> metric, crop_type |-> crop_type, crop_z |-> crop_z]
              /\ t_pc' = IF d.ctl = "call" THEN "routine" ELSE "returned"
              /\ t_call' = IF d.ctl = "call" THEN d.routine ELSE None
              /\ t_out' = IF d.ctl = "call" THEN NoOutcome ELSE d
    /\ t_gw' = <<>>
    /\ t_result' = NoOutcome
    /\ FacadeFrame

\* the routine has run: its outcome and the Gateway calls it made
RoutineDone(r) ==
    /\ t_result' = r.out
    /\ t_gw' = r.gw
    /\ t_pc' = "serialize"
    /\ UNCHANGED <<t_args, t_call, t_out>>
    /\ FacadeFrame

\* line 509
RunCompareAll ==
    /\ t_pc = "routine"
    /\ t_call = "compare_rainfall_and_crops"
    /\ \E rain_x \in FacadeRainUpstream(t_args.state_x),
          rain_y \in FacadeRainUpstream(t_args.state_y),
          crop_x \in FacadeCropScripts, crop_y \in FacadeCropScripts :
          RoutineDone(compare_rainfall_and_crops(
              t_args.state_x, t_args.state_y, t_args.years, t_args.crop_type,
              <<rain_x, rain_y>>, <<crop_x, crop_y>>, JsonIsReqExc))

\* line 514
RunMaxMinCrop ==
    /\ t_pc = "routine"
    /\ t_call = "find_max_min_districts"
    /\ \E crop_x \in FacadeCropScripts, crop_y \in FacadeCropScripts :
          RoutineDone(find_max_min_districts(
              t_args.state_x, t_args.state_y, t_args.crop_z, t_args.years,
              <<crop_x, crop_y>>, JsonIsReqExc))

\* line 517
RunPolicyAdvice ==
    /\ t_pc = "routine"
    /\ t_call = "analyze_correlation_and_policy"
    /\ \E rain_x \in FacadeRainUpstream(t_args.state_x),
          rain_y \in FacadeRainUpstream(t_args.state_y),
          crop_x \in FacadeCropScripts, crop_y \in FacadeCropScripts :
          RoutineDone(analyze_correlation_and_policy(
              t_args.state_x, t_args.state_y, t_args.years,
              <<[rain |-> rain_x, crop |-> crop_x], [rain |-> rain_y, crop |-> crop_y]>>,
              JsonIsReqExc))

\* lines 522-525
ToolReturn ==
    /\ t_pc = "serialize"
    /\ \E out \in {Serialize(t_result)} :
          /\ t_out' = out
          /\ t_pc' = IF out.ctl = "raise" THEN "raised" ELSE "returned"
    /\ UNCHANGED <<t_args, t_call, t_gw, t_result>>
    /\ FacadeFrame

FacadeNext == ToolCall \/ RunCompareAll \/ RunMaxMinCrop \/ RunPolicyAdvice \/ ToolReturn

-----------------------------------------------------------------------------
(* The requests and the upstream of find_max_min_districts *)

\* the crop records the upstream serves during one call, over both states
MaxDistrictRecs == 3

\* districts A and B; productions 0, 0.004, 5.0, -5.0 and 8.0 for A, "NA",
\* 5.0 and 3.0 for B; one record of B outside the window of years = 5
MaxMinRecords ==
    {DistrictRecord(Str(Chars_Rice), Chars_A, 0, 2010),
     DistrictRecord(Str(Chars_Rice), Chars_A, 4, 2010),
     DistrictRecord(Str(Chars_Rice), Chars_A, 5000, 2009),
     DistrictRecord(Str(Chars_Rice), Chars_A, -5000, 2010),
     DistrictRecord(Str(Chars_Rice), Chars_A, 8000, 2010),
     [DistrictRecord(Str(Chars_Rice), Chars_B, 0, 2010) EXCEPT
         !.production_ = Str(<<"N", "A">>)],
     DistrictRecord(Str(Chars_Rice), Chars_B, 5000, 2010),
     DistrictRecord(Str(Chars_Rice), Chars_B, 3000, 2008),
     DistrictRecord(Str(Chars_Rice), Chars_B, 1000, 2005)}

MaxMinScripts(served) ==
    {OkScript(recs) : recs \in SeqsUpTo(MaxMinRecords, MaxDistrictRecs - served)}
    \cup FailScripts \cup RaiseScripts

MaxMinStatePairs == {<<"Kerala", "Goa">>, <<"Goa", "Goa">>}
MaxMinCrops == {"Rice"}
MaxMinYears == {5}

-----------------------------------------------------------------------------
(* find_max_min_districts as a state machine: one step per state, one for  *)
(* the return                                                              *)

\* lines 277-285
MaxMinCall ==
    /\ m_pc = "idle"
    /\ \E p \in MaxMinStatePairs, crop_z \in MaxMinCrops, years \in MaxMinYears :
          m_args' = [state_x |-> p[1], state_y |-> p[2], crop_z |-> crop_z,
                     years |-> years]
    /\ m_pc' = "state_x"
    /\ m_gw' = <<>>
    /\ m_out' = NoOutcome
    /\ UNCHANGED <<crop_result_x, district_production_x, max_district_x,
                   crop_result_y, district_production_y, min_district_y>>
    /\ MaxMinFrame

\* the step taken on the outcome r of the work for one state
MaxMinAdvance(r, next_pc) ==
    /\ m_gw' = m_gw \o r.gw
    /\ m_pc' = CASE r.ctl = "continue" -> next_pc
                 [] r.ctl = "raise" -> "raised"
                 [] r.ctl = "return" -> "returned"
    /\ m_out' = CASE r.ctl = "continue" -> m_out
                  [] r.ctl = "raise" -> Raise(r.exc)
                  [] r.ctl = "return" -> Return(r.val)

\* lines 288-302
MaxMinFetchX ==
    /\ m_pc = "state_x"
    /\ \E script \in MaxMinScripts(ServedCropRecords(m_gw)) :
          \E r \in {MaxMinStateX(m_args.state_x, m_args.crop_z, m_args.years, script,
                                  JsonIsReqExc)} :
              /\ MaxMinAdvance(r, "state_y")
              /\ IF r.ctl = "continue"
                 THEN /\ crop_result_x' = r.crop_result
                      /\ district_production_x' = r.district_production
                      /\ max_district_x' = r.max_district
                 ELSE UNCHANGED <<crop_result_x, district_production_x, max_district_x>>
    /\ UNCHANGED <<m_args, crop_result_y, district_production_y, min_district_y>>
    /\ MaxMinFrame

\* lines 305-320
MaxMinFetchY ==
    /\ m_pc = "state_y"
    /\ \E script \in MaxMinScripts(ServedCropRecords(m_gw)) :
          \E r \in {MaxMinStateY(m_args.state_y, m_args.crop_z, m_args.years, script,
                                  JsonIsReqExc)} :
              /\ MaxMinAdvance(r, "results")
              /\ IF r.ctl = "continue"
                 THEN /\ crop_result_y' = r.crop_result
                      /\ district_production_y' = r.district_production
                      /\ min_district_y' = r.min_district
                 ELSE UNCHANGED <<crop_result_y, district_production_y, min_district_y>>
    /\ UNCHANGED <<m_args, crop_result_x, district_production_x, max_district_x>>
    /\ MaxMinFrame

\* lines 322-344
MaxMinReturn ==
    /\ m_pc = "results"
    /\ m_out' = Return(MaxMinResults(m_args.state_x, m_args.state_y, m_args.crop_z,
                                     m_args.years, max_district_x, min_district_y,
                                     crop_result_x.url, crop_result_y.url))
    /\ m_pc' = "returned"
    /\ UNCHANGED <<m_args, crop_result_x, district_production_x, max_district_x,
                   crop_result_y, district_production_y, min_district_y, m_gw>>
    /\ MaxMinFrame

MaxMinNext == MaxMinCall \/ MaxMinFetchX \/ MaxMinFetchY \/ MaxMinReturn

-----------------------------------------------------------------------------
(* safe_float_convert on its own: one call on a value the upstream may send *)

\* the longest string drawn from SanitizerChars
MaxSanitizerLen == 2

SanitizerChars == {"N", "A", "n", "a", "/", "3", ".", "5", "-", " "}
Chars_NULL == <<"N", "U", "L", "L">>
Chars_null == <<"n", "u", "l", "l">>
Chars_abc == <<"a", "b", "c">>
\* null, numbers (0, 3.5, -2.0, an integer beyond the float range) and strings
SanitizerValues ==
    {NoneV, Num(0), Num(3500), Num(-2000), BigInt}
    \cup {Str(s) : s \in SeqsUpTo(SanitizerChars, MaxSanitizerLen)}
    \cup {Str(s) : s \in {Chars_NULL, Chars_null, <<"N", "u", "l", "l">>, Chars_abc,
                          <<"N", "/", "A">>, <<"n", "/", "a">>, <<"N", "/", "a">>,
                          <<"3", ".", "5">>, <<"-", "3", ".", "5">>, <<" ", "3", ".", "5", " ">>,
                          <<"3", ".", "5", ".", "5">>, <<" ", "N", "A", " ">>}}
\* the caller's default: 0.0 and -1.0
SanitizerDefaults == {0, -1000}

\* lines 125-132
SanitizerCall ==
    /\ sfc_out = NoOutcome
    /\ \E value \in SanitizerValues, default \in SanitizerDefaults :
          /\ sfc_args' = [value |-> value, default |-> default]
          /\ sfc_out' = safe_float_convert(value, default)
    /\ SanitizerFrame

SanitizerNext == SanitizerCall

-----------------------------------------------------------------------------
(* Specifications: nothing is running at the start; each specification runs *)
(* one layer of the program on every input and upstream answer of its sets  *)

Init ==
    /\ api_pc = "idle"
    /\ api_args = [resource_id |-> None, filters |-> <<>>, json_is_reqexc |-> TRUE]
    /\ attempt = 0
    /\ http_log = <<>>
    /\ api_out = NoOutcome
    /\ f_pc = "idle"
    /\ f_args = [fn |-> None]
    /\ f_acc = RainLocals
    /\ f_out = NoOutcome
    /\ c_pc = "idle"
    /\ c_args = [state_x |-> None]
    /\ c_i = 1
    /\ rainfall_data = <<>>
    /\ crop_data = <<>>
    /\ c_gw = <<>>
    /\ c_out = NoOutcome
    /\ t_pc = "idle"
    /\ t_args = [metric |-> None]
    /\ t_call = None
    /\ t_gw = <<>>
    /\ t_result = NoOutcome
    /\ t_out = NoOutcome
    /\ m_pc = "idle"
    /\ m_args = [state_x |-> None]
    /\ crop_result_x = None
    /\ district_production_x = <<>>
    /\ max_district_x = None
    /\ crop_result_y = None
    /\ district_production_y = <<>>
    /\ min_district_y = None
    /\ m_gw = <<>>
    /\ m_out = NoOutcome
    /\ sfc_args = None
    /\ sfc_out = NoOutcome

SpecApi == Init /\ [][ApiNext]_vars
SpecFetch == Init /\ [][FetchNext]_vars
SpecCompare == Init /\ [][CompareNext]_vars
SpecFacade == Init /\ [][FacadeNext]_vars
SpecMaxMin == Init /\ [][MaxMinNext]_vars
SpecSanitizer == Init /\ [][SanitizerNext]_vars

-----------------------------------------------------------------------------
(* Claims about make_api_call, checked under SpecApi *)

LastRequest == http_log[Len(http_log)]
AllTransport == \A i \in 1..Len(http_log) : http_log[i].k \in TransportKinds

\* C3: a call issues at most MAX_RETRIES HTTP requests; when every attempt
\* ended in a transport failure the call has issued exactly MAX_RETRIES
\* requests by the time it returns, and it returns success = false with the
\* reason of the last failed attempt in its error message.
C3_BoundedRetriesLastReason ==
    /\ Len(http_log) <= MAX_RETRIES
    /\ (api_pc = "loop" => Len(http_log) < MAX_RETRIES)
    /\ (api_pc \in {"returned", "raised"} /\ AllTransport) =>
          /\ api_pc = "returned"
          /\ Len(http_log) = MAX_RETRIES
          /\ api_out.val.success = FALSE
          /\ api_out.val.error = <<"API Request Failed: ",
                                   <<LastRequest.k, LastRequest.reason>> >>

C3_Witness ==
    /\ api_pc = "returned"
    /\ Len(http_log) = MAX_RETRIES
    /\ AllTransport
    /\ <<http_log[1].k, http_log[1].reason>> # <<LastRequest.k, LastRequest.reason>>
    /\ <<http_log[2].k, http_log[2].reason>> # <<LastRequest.k, LastRequest.reason>>

\* C4: the first attempt that obtains a parsed body is the last request of the
\* call; when the body is a JSON object the call returns, classified by the
\* body's status: "ok" gives success = true with the body's records and
\* total, "error" gives success = false with the upstream message, any other
\* or absent status gives success = false with the generic no-data message.
C4_ParsedBodyEndsCall ==
    \A i \in 1..Len(http_log) :
        http_log[i].k = "Body" =>
            /\ i = Len(http_log)
            /\ api_pc # "loop"
            /\ http_log[i].body.isdict =>
                  LET d == http_log[i].body.d
                      st == IF "status" \in DOMAIN d THEN d.status ELSE "absent"
                  IN  /\ api_pc = "returned"
                      /\ st = "ok" =>
                            /\ api_out.val.success = TRUE
                            /\ "records" \in DOMAIN d => api_out.val.data = d.records
                            /\ "total" \in DOMAIN d => api_out.val.total = d.total
                      /\ st = "error" =>
                            /\ api_out.val.success = FALSE
                            /\ api_out.val.error[1] = "API Error: "
                            /\ "message" \in DOMAIN d => api_out.val.error[2] = d.message
                      /\ st \notin {"ok", "error"} =>
                            /\ api_out.val.success = FALSE
                            /\ api_out.val.error = <<"No data found for the given filters">>

C4_Witness ==
    /\ api_pc = "returned"
    /\ Len(http_log) = 2
    /\ http_log[1].k \in TransportKinds
    /\ http_log[2].k = "Body"
    /\ http_log[2].body.isdict
    /\ "status" \in DOMAIN http_log[2].body.d
    /\ http_log[2].body.d.status = "error"
    /\ api_out.val.success = FALSE

\* C5 as stated: whenever the server delivered a response (an HTTP error
\* status, a body that is not JSON, a parsed body), that request is the last
\* one of the call.
C5_NoRetryAfterAnyResponse ==
    \A i \in 1..Len(http_log) :
        http_log[i].k \notin TransportKinds =>
            i = Len(http_log) /\ api_pc # "loop"

\* The exception classes the running build catches at line 79.
CaughtKinds ==
    RequestExceptionKinds \cup (IF api_args.json_is_reqexc THEN {"NotJSON"} ELSE {})

\* C5 amended: a further request follows an attempt exactly when that attempt
\* raised a RequestException (connection error, timeout, HTTP error status,
\* and a non-JSON body where requests reports it as one) and it was not the
\* last of the MAX_RETRIES attempts; a parsed body is never followed by one.
C5_RetryExactlyOnRequestException ==
    \A i \in 1..Len(http_log) :
        LET continued == i < Len(http_log) \/ api_pc = "loop"
        IN  continued <=> (http_log[i].k \in CaughtKinds /\ i < MAX_RETRIES)

C5_Witness ==
    /\ Len(http_log) >= 2
    /\ http_log[1].k = "HTTPError"
    /\ http_log[2].k = "Body"

\* C6 as stated: every call ends in a returned mapping with a boolean success
\* field; the call never raises.
C6_NeverRaises ==
    /\ api_pc # "raised"
    /\ api_pc = "returned" => api_out.val.success \in BOOLEAN

-----------------------------------------------------------------------------
(* Claims about the fetchers, checked under SpecFetch *)

\* The year window of the claims: the field parses as an integer y with
\* CURRENT_ANALYSIS_YEAR - years + 1 <= y <= CURRENT_ANALYSIS_YEAR.
AdmittedYears(years) == (CURRENT_ANALYSIS_YEAR - years + 1)..CURRENT_ANALYSIS_YEAR
Admitted(r, key, years) ==
    LET y == PyInt(IF key \in DOMAIN r THEN r[key] ELSE Num(0))
    IN  y.ok /\ y.v \in AdmittedYears(years)

\* a returned record is the upstream record, but for the sanitized fields
SameRecord(returned, upstream, sanitized) ==
    \A k \in DOMAIN upstream \ sanitized : k \in DOMAIN returned /\ returned[k] = upstream[k]
SameRecords(returned, upstream, sanitized) ==
    /\ Len(returned) = Len(upstream)
    /\ \A i \in 1..Len(upstream) : SameRecord(returned[i], upstream[i], sanitized)

\* the in-window records of the successful subdivision calls, in call order
RECURSIVE RainAdmitted(_, _)
RainAdmitted(gw, years) ==
    IF gw = <<>> THEN <<>>
    ELSE LET c == gw[Len(gw)]
             before == RainAdmitted(SubSeq(gw, 1, Len(gw) - 1), years)
         IN  IF GatewaySucceeded(c)
             THEN before \o SelectSeq(c.out.val.data, LAMBDA r : Admitted(r, "year", years))
             ELSE before

\* the field is in the float range: sanitizing it does not raise
InFloatRange(r, key) == Get(r, key, NoneV) # BigInt

\* the records fetch_rainfall_data collects: the in-window records of the
\* successful subdivision calls whose annual field is in the float range
RECURSIVE RainCollectedRecords(_, _)
RainCollectedRecords(gw, years) ==
    IF gw = <<>> THEN <<>>
    ELSE LET c == gw[Len(gw)]
             before == RainCollectedRecords(SubSeq(gw, 1, Len(gw) - 1), years)
         IN  IF GatewaySucceeded(c)
             THEN before \o SelectSeq(c.out.val.data,
                                LAMBDA r : Admitted(r, "year", years) /\ InFloatRange(r, "annual"))
             ELSE before

CropFetchReturned == f_pc = "returned" /\ f_args.fn = "fetch_crop_data"
RainFetchRunning == f_args.fn = "fetch_rainfall_data"
RainFetchReturned == f_pc = "returned" /\ f_args.fn = "fetch_rainfall_data"

\* C7: when its Gateway call succeeds, fetch_crop_data returns exactly the
\* upstream records, in upstream order, whose crop_year parses as an integer
\* inside the closed window [CURRENT_ANALYSIS_YEAR - years + 1,
\* CURRENT_ANALYSIS_YEAR]; records with an unparsable year are dropped and the
\* call still returns; total is the number of records kept.
\* fetch_rainfall_data keeps, of each successful subdivision call, the
\* records whose year lies in the same window.
C7_YearWindow ==
    /\ (f_args.fn = "fetch_crop_data" /\ GatewaySucceeded(f_acc.gw[1])) =>
          LET upstream == f_acc.gw[1].out.val.data
              kept == SelectSeq(upstream, LAMBDA r : Admitted(r, "crop_year", f_args.years))
          IN  /\ f_pc = "returned"
              /\ f_out.val.success
              /\ SameRecords(f_out.val.data, kept, {"production_", "area_"})
              /\ f_out.val.total = Len(kept)
    /\ RainFetchRunning =>
          SameRecords(f_acc.all_records, RainAdmitted(f_acc.gw, f_args.years), {"annual"})
    /\ RainFetchReturned =>
          /\ f_out.val.data = f_acc.all_records
          /\ f_out.val.total = Len(f_acc.all_records)

\* years = 5: a record of 2006 is kept, one of 2005 dropped
C7_Witness ==
    /\ CropFetchReturned
    /\ f_args.years = 5
    /\ GatewaySucceeded(f_acc.gw[1])
    /\ Len(f_acc.gw[1].out.val.data) = 2
    /\ Get(f_acc.gw[1].out.val.data[1], "crop_year", NoneV) = Num(2005000)
    /\ Get(f_acc.gw[1].out.val.data[2], "crop_year", NoneV) = Num(2006000)
    /\ f_out.val.total = 1
    /\ f_out.val.data[1].crop_year = Num(2006000)

RainFailedCalls == SelectSeq(f_acc.gw, GatewayFailed)
RainSucceededCalls == SelectSeq(f_acc.gw, GatewaySucceeded)
RainCollected == Len(RainCollectedRecords(f_acc.gw, f_args.years))
RainFailureMessages ==
    [i \in 1..Len(RainFailedCalls) |->
        <<RainFailedCalls[i].filters.subdivision, ": ", RainFailedCalls[i].out.val.error>>]
RainSucceededUrls ==
    [i \in 1..Len(RainSucceededCalls) |-> RainSucceededCalls[i].out.val.url]

\* C8: fetch_rainfall_data returns success = true exactly when at least one
\* in-window record was collected over all subdivision calls; with no record
\* and at least one failed call it returns success = false with the
\* "; "-joined messages of all failed calls; with no record and no failed
\* call it returns success = false without an error message.
C8_RainAggregateSuccess ==
    RainFetchReturned =>
        /\ f_out.val.success <=> RainCollected > 0
        /\ (RainCollected = 0 /\ Len(RainFailedCalls) > 0) =>
              /\ f_out.val.success = FALSE
              /\ f_out.val.error = <<"Failed to fetch data: ",
                                     Join(RainFailureMessages, "; ")>>
        /\ (RainCollected = 0 /\ Len(RainFailedCalls) = 0) =>
              /\ f_out.val.success = FALSE
              /\ "error" \notin DOMAIN f_out.val

\* success although a subdivision call failed
C8_Witness ==
    /\ RainFetchReturned
    /\ f_out.val.success
    /\ Len(RainFailedCalls) > 0
    /\ Len(RainSucceededCalls) > 1

\* C9 as stated: the url of every result is the " | "-joined list of the
\* URLs of all successful subdivision calls.
C9_UrlJoinsSuccessfulCalls ==
    RainFetchReturned => f_out.val.url = Join(RainSucceededUrls, " | ")

\* C9 amended: the url is that list in every result but the failure returned
\* when no record was collected and a subdivision call failed, whose url is
\* empty; no result url holds the URL of a failed call.
C9_UrlJoinsSuccessfulCallsUnlessFailure ==
    RainFetchReturned =>
        /\ IF RainCollected = 0 /\ Len(RainFailedCalls) > 0
           THEN f_out.val.url = <<>>
           ELSE f_out.val.url = Join(RainSucceededUrls, " | ")
        /\ \A i \in 1..Len(RainFailedCalls) :
              \A j \in {x \in 1..Len(f_out.val.url) : x % 2 = 1} :  \* the URLs of the join
                  f_out.val.url[j] # RainFailedCalls[i].out.val.url

\* a successful call that contributed no record is cited, a failed one is not
C9_Witness ==
    /\ RainFetchReturned
    /\ f_out.val.success
    /\ Len(f_acc.gw) = 3
    /\ GatewaySucceeded(f_acc.gw[1]) /\ f_acc.gw[1].out.val.data = <<>>
    /\ GatewayFailed(f_acc.gw[2])
    /\ GatewaySucceeded(f_acc.gw[3])
    /\ f_out.val.url = <<f_acc.gw[1].out.val.url, " | ", f_acc.gw[3].out.val.url>>

-----------------------------------------------------------------------------
(* Claims about compare_rainfall_and_crops, checked under SpecCompare *)

CompareSucceeded == c_pc = "returned" /\ "error" \notin DOMAIN c_out.val

\* the crop Gateway call whose records the entry of state s was built from
LastCropCall(s) ==
    LET calls == {i \in 1..Len(c_gw) :
                     IsCropCall(c_gw[i]) /\ c_gw[i].filters.state_name = s}
    IN  c_gw[CHOOSE i \in calls : \A j \in calls : j <= i]

\* the upstream records of state s inside the year window
WindowCrops(s) ==
    SelectSeq(ServedRecords(LastCropCall(s)),
              LAMBDA r : Admitted(r, "crop_year", c_args.years))

\* the name contains, ignoring case, a crop of the requested category
InCategory(name) ==
    \E i \in 1..Len(CROP_TYPES(c_args.crop_type)) :
        Contains(Lower(CROP_TYPES(c_args.crop_type)[i]), Lower(name.s))

CategoryNames(s) ==
    LET window == WindowCrops(s)
    IN  {window[i].crop : i \in {j \in 1..Len(window) : InCategory(window[j].crop)}}

\* the sum, in thousandths, of the sanitized production of the in-window
\* records of state s named `name`
ProductionSum(s, name) ==
    LET named == SelectSeq(WindowCrops(s), LAMBDA r : r.crop = name)
    IN  SumSeq([i \in 1..Len(named) |->
                   safe_float_convert(Get(named[i], "production_", Num(0)), 0).val])

TopThree(s) == c_out.val.crop_comparison[s].top_3_crops

\* the list of state s against the upstream records; Shown is what the
\* result shows of a sum
TopThreeOf(s, Shown(_)) ==
    LET top == TopThree(s)
        listed == {top[i].crop : i \in 1..Len(top)}
        names == CategoryNames(s)
        sum == [name \in names |-> ProductionSum(s, name)]
    IN  /\ Len(top) <= 3
        /\ \A i, j \in 1..Len(top) : i # j => top[i].crop # top[j].crop
        /\ listed \subseteq names
        /\ \A i \in 1..Len(top) : top[i].total_production = Shown(sum[top[i].crop])
        /\ \A i, j \in 1..Len(top) : i < j => sum[top[i].crop] >= sum[top[j].crop]
        /\ \A name \in names \ listed : \A i \in 1..Len(top) :
               sum[name] <= sum[top[i].crop]

\* C10 as stated: in every non-error result each state's top_3_crops has at
\* most 3 entries with distinct names of the requested category, sorted by
\* descending total, no omitted crop of the category having a larger sum, and
\* each total_production is exactly the sum of the sanitized production of
\* the in-window records with that name.
C10_TopThreeExactSums ==
    CompareSucceeded =>
        \A s \in {c_args.state_x, c_args.state_y} : TopThreeOf(s, LAMBDA sum : sum)

\* C10, amended: as above, but each total_production is that sum rounded to
\* two decimals (line 258: round(prod, 2)).
C10_TopThreeRoundedSums ==
    CompareSucceeded =>
        \A s \in {c_args.state_x, c_args.state_y} : TopThreeOf(s, LAMBDA sum : Round2(sum))

\* a non-error result where a state has four crops of the category inside
\* the window, three listed, the omitted one with a strictly smaller sum,
\* and a listed total that rounding changed
C10_Witness ==
    /\ CompareSucceeded
    /\ \E s \in {c_args.state_x, c_args.state_y} :
          /\ Cardinality(CategoryNames(s)) = 4
          /\ Len(TopThree(s)) = 3
          /\ \E name \in CategoryNames(s) :
                /\ \A i \in 1..3 : TopThree(s)[i].crop # name
                /\ \A i \in 1..3 : ProductionSum(s, name) < ProductionSum(s, TopThree(s)[i].crop)
    /\ \E s \in {c_args.state_x, c_args.state_y} : \E i \in 1..Len(TopThree(s)) :
          TopThree(s)[i].total_production # ProductionSum(s, TopThree(s)[i].crop)

-----------------------------------------------------------------------------
(* Claims about analyze_agricultural_data_func, checked under SpecFacade *)

ToolEnded == t_pc \in {"returned", "raised"}
IsJsonText(x) == DOMAIN x = {"json", "indent"}
IsErrorPayload(x) == IsJsonText(x) /\ DOMAIN x.json = {"error"}

\* C1: the facade never propagates an exception: whatever the arguments and
\* whatever the dispatched routine did, an exception raised inside it
\* included, the call returns a JSON text, and after an exception that text
\* is an object {"error": <description of the failure>}.
C1_NeverPropagates ==
    ToolEnded =>
        /\ t_out.ctl = "return"
        /\ IsJsonText(t_out.val)
        /\ t_result.ctl = "raise" =>
               /\ IsErrorPayload(t_out.val)
               /\ t_result.exc \in {t_out.val.json.error[i] :
                                        i \in 1..Len(t_out.val.json.error)}

\* compare_rainfall_and_crops raised on a record with a null crop after its
\* Gateway calls had all succeeded, and the facade has returned
C1_Witness ==
    /\ t_pc = "returned"
    /\ t_call = "compare_rainfall_and_crops"
    /\ t_result.ctl = "raise"
    /\ t_result.exc = "AttributeError"
    /\ t_gw # <<>>
    /\ \A i \in 1..Len(t_gw) : GatewaySucceeded(t_gw[i])
    /\ IsErrorPayload(t_out.val)

\* the call was answered with an error payload naming `word`, no routine
\* was called and no Gateway call was made
Rejected(word) ==
    /\ t_pc = "returned"
    /\ t_call = None
    /\ t_result = NoOutcome
    /\ t_gw = <<>>
    /\ t_out.ctl = "return"
    /\ IsErrorPayload(t_out.val)
    /\ word \in {t_out.val.json.error[i] : i \in 1..Len(t_out.val.json.error)}

\* C2: a request that is invalid at the facade gets an error payload and
\* starts no routine and no Gateway request: COMPARE_ALL without crop_type
\* (error containing "crop_type"), MAX_MIN_CROP without crop_z (error
\* containing "crop_z"), a metric outside the three known ones (error naming
\* it); POLICY_ADVICE is dispatched whatever crop_type and crop_z are.
C2_InvalidRequestsStartNothing ==
    t_pc # "idle" =>
        /\ (t_args.metric = "COMPARE_ALL" /\ t_args.crop_type = None)
              => Rejected("crop_type")
        /\ (t_args.metric = "MAX_MIN_CROP" /\ t_args.crop_z = None)
              => Rejected("crop_z")
        /\ t_args.metric \notin {"COMPARE_ALL", "MAX_MIN_CROP", "POLICY_ADVICE"}
              => Rejected(t_args.metric)
        /\ t_args.metric = "POLICY_ADVICE"
              => t_call = "analyze_correlation_and_policy"

\* MAX_MIN_CROP was requested without crop_z, with a crop_type, and the
\* call is over
C2_Witness ==
    /\ t_pc = "returned"
    /\ t_args.metric = "MAX_MIN_CROP"
    /\ t_args.crop_z = None
    /\ t_args.crop_type = "Pulses"
    /\ Rejected("crop_z")

-----------------------------------------------------------------------------
(* Claims about the citations of compare_rainfall_and_crops (SpecCompare) *)

\* the rainfall Gateway calls of the fetch whose entry the result keeps for
\* state s: the last run of calls for the subdivisions of s
RainCallsOf(s) ==
    LET subs == get_subdivisions_for_state(s)
        at == {i \in 1..Len(c_gw) :
                  /\ c_gw[i].resource_id = RAIN_RESOURCE_ID
                  /\ \E k \in 1..Len(subs) : c_gw[i].filters.subdivision = subs[k]}
        last == CHOOSE i \in at : \A j \in at : j <= i
    IN  SubSeq(c_gw, last - Len(subs) + 1, last)

\* the source URL of the rainfall fetch of state s: the URLs of its
\* successful subdivision calls, in call order, joined by " | "
RainfallSourceUrl(s) ==
    LET ok == SelectSeq(RainCallsOf(s), GatewaySucceeded)
    IN  Join([i \in 1..Len(ok) |-> ok[i].out.val.url], " | ")

CitationKeys ==
    {<<s, kind>> : s \in {c_args.state_x, c_args.state_y}, kind \in {"_rainfall", "_crops"}}

\* C11: every non-error result of compare_rainfall_and_crops has a citations
\* map whose keys are exactly <state>_rainfall and <state>_crops for state_x
\* and state_y, each entry being the non-empty source URL of that state's own
\* rainfall resp. crop fetch.
C11_CitationsPerStateAndDimension ==
    CompareSucceeded =>
        /\ DOMAIN c_out.val.citations = CitationKeys
        /\ \A s \in {c_args.state_x, c_args.state_y} :
              /\ c_out.val.citations[<<s, "_rainfall">>] = RainfallSourceUrl(s)
              /\ c_out.val.citations[<<s, "_rainfall">>] # <<>>
              /\ c_out.val.citations[<<s, "_crops">>] = LastCropCall(s).out.val.url
              /\ c_out.val.citations[<<s, "_crops">>] # <<>>
              /\ LastCropCall(s).out.val.url
                    = ResponseUrl(CROP_RESOURCE_ID, [state_name |-> s])

\* a non-error result for two different states: four citations, the crop
\* citations of the two states differing
C11_Witness ==
    /\ CompareSucceeded
    /\ c_args.state_x # c_args.state_y
    /\ Cardinality(DOMAIN c_out.val.citations) = 4
    /\ c_out.val.citations[<<c_args.state_x, "_crops">>]
          # c_out.val.citations[<<c_args.state_y, "_crops">>]
    /\ c_out.val.citations[<<c_args.state_x, "_rainfall">>]
          # c_out.val.citations[<<c_args.state_y, "_rainfall">>]

-----------------------------------------------------------------------------
(* Claims about find_max_min_districts, checked under SpecMaxMin *)

MaxMinSucceeded == m_pc = "returned" /\ "error" \notin DOMAIN m_out.val
MaxMinFailed == m_pc = "returned" /\ "error" \in DOMAIN m_out.val

\* the fetch for state_x resp. state_y succeeded
FetchedX == Len(m_gw) >= 1 /\ GatewaySucceeded(m_gw[1])
FetchedY == Len(m_gw) >= 2 /\ GatewaySucceeded(m_gw[2])

\* the upstream records of a Gateway call inside the year window
WindowRecords(c) ==
    SelectSeq(ServedRecords(c), LAMBDA r : Admitted(r, "crop_year", m_args.years))

\* the sanitized production of an upstream record, in thousandths
Sanitized(r) == safe_float_convert(Get(r, "production_", NoneV), 0).val

DistrictsOf(recs) == {recs[i].district_name : i \in 1..Len(recs)}

\* the production of district d summed over all of the records
DistrictSum(recs, d) ==
    LET own == SelectSeq(recs, LAMBDA r : r.district_name = d)
    IN  SumSeq([i \in 1..Len(own) |-> Sanitized(own[i])])

ReportedY == m_out.val[m_args.state_y]

\* C12: find_max_min_districts never selects as the state_y minimum a
\* district whose total production is 0: in every non-error result the
\* reported state_y total is strictly positive and the chosen district's
\* production summed over its in-window records is not 0; and when every
\* state_y district has total production 0 the call returns an error result.
C12_ZeroTotalNeverMinimum ==
    /\ MaxMinSucceeded =>
          /\ ReportedY.total_production > 0
          /\ DistrictSum(WindowRecords(m_gw[2]),
                         ReportedY.min_production_district) # 0
    /\ (m_pc = "returned" /\ FetchedY
          /\ \A d \in DistrictsOf(WindowRecords(m_gw[2])) :
                DistrictSum(WindowRecords(m_gw[2]), d) = 0)
       => MaxMinFailed

Ratio == m_out.val.comparison.production_ratio

\* r, in thousandths, is x / y rounded to two decimals: a whole number of
\* hundredths no farther from x / y than half a hundredth
IsRoundedQuotient(r, x, y) ==
    /\ r % 10 = 0
    /\ LET k == r \div 10
           d == IF k * y >= 100 * x THEN k * y - 100 * x ELSE 100 * x - k * y
       IN  2 * d <= y

\* C13: find_max_min_districts never faults with a division by zero; no
\* non-error result has a selected minimum total of 0, production_ratio is
\* never the string "Infinite" and is the selected maximum total divided by
\* the selected minimum total, rounded to two decimals.
C13_RatioIsQuotientNeverInfinite ==
    /\ m_pc = "raised" => m_out.exc # "ZeroDivisionError"
    /\ MaxMinSucceeded =>
          /\ min_district_y.prod > 0
          /\ Ratio.t = "num"
          /\ IsRoundedQuotient(Ratio.v, max_district_x.prod, min_district_y.prod)

\* a non-error result whose minimum is the smallest positive total of the
\* model, 0.004, reported as 0.0, against a maximum of 8.0: the ratio is 2000.0
C13_Witness ==
    /\ MaxMinSucceeded
    /\ min_district_y.prod = 4
    /\ ReportedY.total_production = 0
    /\ max_district_x.prod = 8000
    /\ Ratio = Num(2000000)

\* the districts of state_y with a non-zero total over their in-window records
CandidatesY ==
    {d \in DistrictsOf(WindowRecords(m_gw[2])) : DistrictSum(WindowRecords(m_gw[2]), d) # 0}

\* C18: for state_y the candidates are exactly the districts whose production
\* summed over all of their in-window records is non-zero, the reported total
\* of the chosen district is that full sum (rounded to two decimals), and no
\* candidate has a smaller sum; with no candidate the call returns an error.
C18_RecordwiseEqualsDistrictwise ==
    (m_pc = "returned" /\ FetchedY) =>
        /\ CandidatesY = {} <=> MaxMinFailed
        /\ MaxMinSucceeded =>
              /\ {district_production_y[i].district :
                     i \in 1..Len(district_production_y)} = CandidatesY
              /\ \A i \in 1..Len(district_production_y) :
                    district_production_y[i].prod
                       = DistrictSum(WindowRecords(m_gw[2]),
                                     district_production_y[i].district)
              /\ ReportedY.min_production_district \in CandidatesY
              /\ ReportedY.total_production
                    = Round2(DistrictSum(WindowRecords(m_gw[2]),
                                         ReportedY.min_production_district))
              /\ \A d \in CandidatesY :
                    DistrictSum(WindowRecords(m_gw[2]), ReportedY.min_production_district)
                       <= DistrictSum(WindowRecords(m_gw[2]), d)

ReportedX == m_out.val[m_args.state_x]

\* C19: for state_x, district_production_x holds every district of the
\* in-window records, zero-sum districts included, each with its production
\* summed over all of its in-window records; the chosen district has a sum
\* greater than or equal to every other one; a non-error result reports that
\* district and its (rounded) sum under state_x; and a successful fetch with
\* no in-window record returns an error result.
C19_MaxOverAllDistricts ==
    (FetchedX /\ m_pc # "state_x") =>
        IF WindowRecords(m_gw[1]) = <<>>
        THEN MaxMinFailed /\ Len(m_gw) = 1
        ELSE /\ {district_production_x[i].district :
                    i \in 1..Len(district_production_x)}
                   = DistrictsOf(WindowRecords(m_gw[1]))
             /\ \A i \in 1..Len(district_production_x) :
                   district_production_x[i].prod
                      = DistrictSum(WindowRecords(m_gw[1]),
                                    district_production_x[i].district)
             /\ \A d \in DistrictsOf(WindowRecords(m_gw[1])) :
                   DistrictSum(WindowRecords(m_gw[1]), d) <= max_district_x.prod
             /\ max_district_x.prod
                   = DistrictSum(WindowRecords(m_gw[1]), max_district_x.district)
             /\ MaxMinSucceeded =>
                   /\ "max_production_district" \in DOMAIN ReportedX
                   /\ ReportedX.max_production_district = max_district_x.district
                   /\ ReportedX.total_production = Round2(max_district_x.prod)

-----------------------------------------------------------------------------
(* Claims about analyze_correlation_and_policy, checked under SpecFacade *)

PolicyDone ==
    t_call = "analyze_correlation_and_policy" /\ t_pc \in {"serialize", "returned"}
PolicyReturned == PolicyDone /\ t_result.ctl = "return"
Requested == {t_args.state_x, t_args.state_y}

\* the Gateway calls made for state s: one rainfall call per subdivision, one
\* crop call
PolicyRainCalls(s) ==
    LET subs == get_subdivisions_for_state(s)
    IN  SelectSeq(t_gw, LAMBDA c : /\ c.resource_id = RAIN_RESOURCE_ID
                                    /\ \E k \in 1..Len(subs) : c.filters.subdivision = subs[k])
PolicyCropCalls(s) ==
    SelectSeq(t_gw, LAMBDA c : IsCropCall(c) /\ c.filters.state_name = s)

\* the in-window upstream records of state s
PolicyRainRecords(s) == RainAdmitted(PolicyRainCalls(s), t_args.years)
PolicyCropRecords(s) ==
    IF PolicyCropCalls(s) # <<>> /\ GatewaySucceeded(PolicyCropCalls(s)[1])
    THEN SelectSeq(ServedRecords(PolicyCropCalls(s)[1]),
                   LAMBDA r : Admitted(r, "crop_year", t_args.years))
    ELSE <<>>

Unmapped(s) == s \notin IMD_STATES
RainFetchFailed(s) == PolicyRainRecords(s) = <<>>
CropFetchFailed(s) == PolicyCropCalls(s) = <<>> \/ ~GatewaySucceeded(PolicyCropCalls(s)[1])

\* the years for which state s has a positive rainfall value, a record of a
\* high-water crop and a record of a low-water crop
RainYears(s) ==
    {PyInt(PolicyRainRecords(s)[i].year).v :
        i \in {j \in 1..Len(PolicyRainRecords(s)) :
                  safe_float_convert(Get(PolicyRainRecords(s)[j], "annual", NoneV), 0).val > 0}}
WaterYears(s, water_use) ==
    {PyInt(PolicyCropRecords(s)[i].crop_year).v :
        i \in {j \in 1..Len(PolicyCropRecords(s)) :
                  WaterUse(PolicyCropRecords(s)[j].crop) = water_use}}
CommonYears(s) == RainYears(s) \cap WaterYears(s, "High") \cap WaterYears(s, "Low")

Excluded(s) ==
    \/ Unmapped(s)
    \/ RainFetchFailed(s)
    \/ CropFetchFailed(s)
    \/ Cardinality(CommonYears(s)) < 3

\* what the upstream answered for state s, and the analysis of s on its own
UpstreamOf(s) ==
    [rain |-> [i \in 1..Len(PolicyRainCalls(s)) |-> PolicyRainCalls(s)[i].script],
     crop |-> PolicyCropCalls(s)[1].script]
AnalysisAlone(s) ==
    PolicyIteration(<<>>, s, t_args.years, UpstreamOf(s), JsonIsReqExc).state_analysis

RecommendedStates(result) ==
    {result.policy_recommendations[i].state : i \in 1..Len(result.policy_recommendations)}

\* C14: in analyze_correlation_and_policy a state without subdivision
\* mapping, with a failed rainfall or crop fetch, or with fewer than 3 common
\* years is absent from state_analysis and citations and has no
\* recommendation; the call raises only when a Gateway call raised, and
\* otherwise returns a non-error result in which the other state's entry,
\* citation and recommendations are those of its analysis on its own.
C14_ExcludedStateLeavesNoTrace ==
    (PolicyDone /\ \E s \in Requested : Excluded(s)) =>
        /\ t_result.ctl = "raise" =>
              \E i \in 1..Len(t_gw) : t_gw[i].out.ctl = "raise"
        /\ t_result.ctl = "return" =>
              /\ "error" \notin DOMAIN t_result.val
              /\ \A s \in Requested : Excluded(s) =>
                    /\ s \notin Keys(t_result.val.state_analysis)
                    /\ s \notin Keys(t_result.val.citations)
                    /\ s \notin RecommendedStates(t_result.val)
                    /\ \A o \in Requested \ {s} : ~Excluded(o) =>
                          /\ t_result.val.state_analysis = AnalysisAlone(o)
                          /\ t_result.val.policy_recommendations
                                = PolicyRecommendations(AnalysisAlone(o))
                          /\ Keys(t_result.val.citations) = {o}

\* state_x is excluded for having two common years only, after two successful
\* fetches, and state_y is analysed and has a recommendation
C14_Witness ==
    /\ PolicyReturned
    /\ ~Unmapped(t_args.state_x)
    /\ ~RainFetchFailed(t_args.state_x)
    /\ ~CropFetchFailed(t_args.state_x)
    /\ Cardinality(CommonYears(t_args.state_x)) = 2
    /\ Keys(t_result.val.state_analysis) = {t_args.state_y}
    /\ RecommendedStates(t_result.val) = {t_args.state_y}

-----------------------------------------------------------------------------
(* Claims about the citations of the three routines, checked under SpecFacade *)

RoutineSucceeded ==
    /\ t_call # None
    /\ t_pc \in {"serialize", "returned"}
    /\ t_result.ctl = "return"
    /\ "error" \notin DOMAIN t_result.val

\* the states that have at least one entry in citations
CitedStates ==
    CASE t_call = "compare_rainfall_and_crops" ->
            {key[1] : key \in DOMAIN t_result.val.citations}
      [] t_call = "find_max_min_districts" -> DOMAIN t_result.val.citations
      [] t_call = "analyze_correlation_and_policy" -> Keys(t_result.val.citations)

\* C15 as stated: every non-error result of the three routines carries in
\* citations at least one entry for each of the two requested states.
C15_EveryRequestedStateCited ==
    RoutineSucceeded => Requested \subseteq CitedStates

\* C15, amended: a non-error result of compare_rainfall_and_crops or
\* find_max_min_districts cites each of the two requested states; a result of
\* analyze_correlation_and_policy cites exactly the states present in
\* state_analysis, so a requested state that was skipped has no citation.
C15_AnalysedStatesCited ==
    RoutineSucceeded =>
        IF t_call = "analyze_correlation_and_policy"
        THEN /\ CitedStates = Keys(t_result.val.state_analysis)
             /\ \A s \in Requested : s \in CitedStates <=> ~Excluded(s)
        ELSE CitedStates = Requested

\* a non-error policy result that cites one requested state and not the other
C15_Witness ==
    /\ RoutineSucceeded
    /\ t_call = "analyze_correlation_and_policy"
    /\ t_args.state_y \in CitedStates
    /\ t_args.state_x \notin CitedStates

-----------------------------------------------------------------------------
(* Claims about the configuration errors of compare_rainfall_and_crops     *)
(* (SpecCompare)                                                           *)

CompareEnded == c_pc \in {"returned", "raised"}
UnmappedStates == {s \in {c_args.state_x, c_args.state_y} : s \notin IMD_STATES}
UnknownCropType == c_args.crop_type \notin CROP_TYPE_KEYS

\* the HTTP requests issued by the Gateway calls of the running call
RECURSIVE RequestsIssued(_)
RequestsIssued(gw) == IF gw = <<>> THEN 0 ELSE Head(gw).nreq + RequestsIssued(Tail(gw))

IsConfigError(val) ==
    /\ "error" \in DOMAIN val
    /\ \/ val.error[1] = "No IMD subdivision mapping found for "
          /\ val.error[2] \in UnmappedStates
       \/ val.error[1] = "Unknown crop type: "
          /\ UnknownCropType /\ val.error[2] = c_args.crop_type

\* C16: when either state has no IMD_SUBDIVISION_MAP entry or crop_type is no
\* key of CROP_TYPES, compare_rainfall_and_crops returns the error result
\* naming the unmapped state or the unknown category before any Gateway
\* request has been issued for the call.
C16_ConfigErrorBeforeAnyRequest ==
    (CompareEnded /\ (UnmappedStates # {} \/ UnknownCropType)) =>
        /\ c_pc = "returned"
        /\ IsConfigError(c_out.val)
        /\ RequestsIssued(c_gw) = 0

-----------------------------------------------------------------------------
(* C17: the sanitizer at run time *)

SanitizerReturned == sfc_out # NoOutcome /\ sfc_out.ctl = "return"
\* None, the empty string, or any spelling of NA, N/A, NULL
IsAbsent(value) ==
    \/ value.t = "none"
    \/ /\ value.t = "str"
       /\ Lower(value.s) \in {<<>>, <<"n", "a">>, <<"n", "/", "a">>, Chars_null}
\* a string float() cannot read
IsUnparsable(value) == value.t = "str" /\ ~FloatOfStr(value.s).ok
\* the number a numeric string or a number stands for
NumberOf(value) == IF value.t = "str" THEN FloatOfStr(value.s).v ELSE value.v

\* C17: every call of safe_float_convert returns; it returns the default for
\* an absent or unparsable value and the parsed number for any other one
C17_SanitizerNeverRaises ==
    sfc_out # NoOutcome =>
        /\ sfc_out.ctl = "return"
        /\ IF IsAbsent(sfc_args.value) \/ IsUnparsable(sfc_args.value)
           THEN sfc_out.val = sfc_args.default
           ELSE sfc_out.val = NumberOf(sfc_args.value)

-----------------------------------------------------------------------------
(* C20: the fan-out of fetch_rainfall_data *)

RainFetchEnded == RainFetchRunning /\ f_pc \in {"returned", "raised"}
\* the subdivisions of the Gateway calls made so far, in call order
RainCalledSubdivisions == [i \in 1..Len(f_acc.gw) |-> f_acc.gw[i].filters.subdivision]

\* C20: fetch_rainfall_data calls the Gateway once per entry of its
\* subdivisions list, in list order, whatever the earlier calls ended in:
\* the calls made so far are those of a prefix of the list, a call that has
\* ended has made one call for each entry, and the records returned are the
\* filtered records of the successful calls, concatenated in that order.
C20_OneCallPerSubdivisionInOrder ==
    /\ RainFetchRunning =>
          /\ Len(f_acc.gw) <= Len(f_args.subdivisions)
          /\ RainCalledSubdivisions = SubSeq(f_args.subdivisions, 1, Len(f_acc.gw))
    /\ RainFetchEnded => RainCalledSubdivisions = f_args.subdivisions
    /\ RainFetchReturned =>
          SameRecords(f_out.val.data, RainCollectedRecords(f_acc.gw, f_args.years),
                      {"annual"})

-----------------------------------------------------------------------------
(* C21: the recommendation rules of analyze_correlation_and_policy *)

RuleLowRainfall == "Promote drought-resistant crops (millets, pulses)"
RuleIrrigation == "Expand irrigation infrastructure for water-intensive crops"
RuleStability == "Drought-resistant crops provide production stability"

\* how many recommendations of the result carry this state and this text
RecommendationCount(result, state, text) ==
    Cardinality({i \in 1..Len(result.policy_recommendations) :
                    /\ result.policy_recommendations[i].state = state
                    /\ result.policy_recommendations[i].recommendation = text})
\* the recommendations labelled with this state
RecommendationsOf(result, state) ==
    SelectSeq(result.policy_recommendations, LAMBDA rec : rec.state = state)
IfThenOne(condition) == IF condition THEN 1 ELSE 0

\* C21: in a returned result of analyze_correlation_and_policy every
\* recommendation is labelled with a state of state_analysis and carries one
\* of the three texts, and each state of state_analysis has the low-rainfall
\* recommendation once iff its average rainfall is below 800, the irrigation
\* one once iff its high-water correlation is above 0.7, and the stability
\* one once iff |low-water correlation| < |high-water correlation|: between
\* 0 and 3 recommendations per analysed state.
C21_RulesPerAnalysedState ==
    PolicyReturned =>
        LET result == t_result.val
        IN  /\ RecommendedStates(result) \subseteq Keys(result.state_analysis)
            /\ \A i \in 1..Len(result.policy_recommendations) :
                  result.policy_recommendations[i].recommendation
                      \in {RuleLowRainfall, RuleIrrigation, RuleStability}
            /\ \A s \in Keys(result.state_analysis) :
                  LET analysis == Lookup(result.state_analysis, s, None)
                      high_corr == analysis.correlation_rainfall_vs_high_water_crops
                      low_corr == analysis.correlation_rainfall_vs_low_water_crops
                  IN  /\ RecommendationCount(result, s, RuleLowRainfall)
                            = IfThenOne(analysis.avg_annual_rainfall_mm < 800000)
                      /\ RecommendationCount(result, s, RuleIrrigation)
                            = IfThenOne(~high_corr.nan /\ high_corr.v > 700)
                      /\ RecommendationCount(result, s, RuleStability)
                            = IfThenOne(/\ ~high_corr.nan
                                        /\ ~low_corr.nan
                                        /\ Abs(low_corr).v < Abs(high_corr).v)
                      /\ Len(RecommendationsOf(result, s)) \in 0..3

\* two analysed states: one with no recommendation (rainfall of 800 mm, both
\* correlations negative and the low-water one the stronger), one with all
\* three
C21_Witness ==
    /\ PolicyReturned
    /\ Keys(t_result.val.state_analysis) = {t_args.state_x, t_args.state_y}
    /\ Len(RecommendationsOf(t_result.val, t_args.state_x)) = 0
    /\ Lookup(t_result.val.state_analysis, t_args.state_x,
              None).correlation_rainfall_vs_high_water_crops.v < 0
    /\ Len(RecommendationsOf(t_result.val, t_args.state_y)) = 3

-----------------------------------------------------------------------------
(* C22: the average rainfall of compare_rainfall_and_crops (SpecCompare) *)

\* the rainfall Gateway calls made for the subdivisions of state s
HasRainCalls(s) ==
    \E i \in 1..Len(c_gw) :
        /\ c_gw[i].resource_id = RAIN_RESOURCE_ID
        /\ \E k \in 1..Len(get_subdivisions_for_state(s)) :
              c_gw[i].filters.subdivision = get_subdivisions_for_state(s)[k]
\* the in-window rainfall records the upstream served for state s
WindowRain(s) == RainCollectedRecords(RainCallsOf(s), c_args.years)
SanitizedAnnual(r) == safe_float_convert(Get(r, "annual", NoneV), 0).val
\* the strictly positive sanitized annual values among the records
PositiveAnnuals(records) ==
    SelectSeq([i \in 1..Len(records) |-> SanitizedAnnual(records[i])], LAMBDA a : a > 0)
NoValidRainfall(s) ==
    [error |-> <<"No valid rainfall data found for ", s, " in the specified period">>]

\* C22: the rainfall entry of a state counts and averages exactly the
\* in-window rainfall records whose sanitized annual value is strictly
\* positive (data_points is their number, the average their rounded mean),
\* and a state whose rainfall fetch collected records none of which is
\* positive has no entry: the call has returned the error result.
C22_AverageOverPositiveAnnuals ==
    c_pc # "idle" =>
    \A s \in {c_args.state_x, c_args.state_y} \cap IMD_STATES :
        IF ~HasRainCalls(s) THEN s \notin DOMAIN rainfall_data
        ELSE
            LET window == WindowRain(s)
                positives == PositiveAnnuals(window)
            IN  /\ s \in DOMAIN rainfall_data =>
                      /\ positives # <<>>
                      /\ rainfall_data[s].data_points = Len(positives)
                      /\ IsRoundedQuotient(rainfall_data[s].average_annual_rainfall_mm,
                                           SumSeq(positives), 1000 * Len(positives))
                      /\ c_pc = "returned" /\ "error" \notin DOMAIN c_out.val =>
                            c_out.val.rainfall_comparison[s] = rainfall_data[s]
                /\ (window # <<>> /\ positives = <<>>) =>
                      /\ s \notin DOMAIN rainfall_data
                      /\ c_pc = "returned"
                      /\ c_out = Return(NoValidRainfall(s))

\* a non-error result whose state_x was served six records: five in the
\* window, two of them positive (1200.5 and 800, mean 1000.25)
C22_Witness ==
    /\ CompareSucceeded
    /\ Len(ServedRecords(RainCallsOf(c_args.state_x)[1])) = 6
    /\ Len(WindowRain(c_args.state_x)) = 5
    /\ c_out.val.rainfall_comparison[c_args.state_x].data_points = 2
    /\ c_out.val.rainfall_comparison[c_args.state_x].average_annual_rainfall_mm = 1000250

====
